---- MODULE Spec2Model ----
(***************************************************************************)
(* A model of the farm IoT pipeline: the Lambda batch processor            *)
(* (src/Lambda/lamda.py: validate_record, handle_alerts,                   *)
(* check_and_send_alert, lambda_handler) and the Glue warehouse loader     *)
(* (src/ETL job - Glue/s3-to-redshift.py).                                 *)
(*                                                                         *)
(* Conventions                                                             *)
(*  - Time is counted in whole minutes since the process started; the      *)
(*    clock datetime.utcnow() is the variable now and never runs backwards.*)
(*  - Numeric sensor values are fixed-point, in hundredths (25.0 is 2500). *)
(*  - A Python dict is a function over all possible keys with the marker   *)
(*    NoEntry for a key the dict does not hold.                            *)
(***************************************************************************)
EXTENDS Integers, Sequences, FiniteSets, TLC

(***************************************************************************)
(* Program constants                                                       *)
(***************************************************************************)
\* ALERT_INTERVAL = timedelta(minutes=5)
ALERT_INTERVAL == 5
\* CONSECUTIVE_RECORDS_THRESHOLD = 1
CONSECUTIVE_RECORDS_THRESHOLD == 1
\* (current_time - last_time).total_seconds() > 3600, in minutes
PURGE_AGE == 60

(***************************************************************************)
(* Bounds of the model                                                     *)
(***************************************************************************)
\* the clock stops advancing at MaxTime minutes
MaxTime == 67
\* a reading differs from a healthy one in at most MaxFaults fields
MaxFaults == 2
\* a batch holds at most MaxBatch records
MaxBatch == 2

NoEntry == -1

VARIABLES
    \* the throttle (module globals of lamda.py and the clock)
    now,                 \* datetime.utcnow(), minutes
    last_sent,           \* alert_state["last_sent"]: key -> minute or NoEntry
    consecutive_counts,  \* alert_state["consecutive_counts"]: key -> count or NoEntry
    threshold,           \* the configured CONSECUTIVE_RECORDS_THRESHOLD
    call,                \* the last operation on the throttle and what it did
    emitted,             \* history: key -> minute of its latest non-CRITICAL
                         \* emission (kept when last_sent is purged)
    \* one reading on its way through validate_record and handle_alerts
    reading,             \* the decoded reading (data), as received
    stage,               \* "decoded", "validated", "alerted" or "failed" (it raised)
    validation,          \* what validate_record returned, and sensor_data as it
                         \* left it
    alerts,              \* what handle_alerts returned
    \* one invocation of lambda_handler
    stream,              \* the payloads the transport has yet to deliver
    pc,                  \* "idle", "running" or "returned"
    records,             \* event["Records"]: the payloads of the batch
    idx,                 \* the position of the for loop in records
    processed_count,
    error_count,
    alert_count,
    puts,                \* the s3_client.put_object calls of the invocation
    publishes,           \* the sns_client.publish calls of the invocation
    response,            \* the body of the returned response
    \* the warehouse loader (s3-to-redshift.py)
    source,              \* public.valid_readings: a set of rows
    dim_location,        \* each dimension: a sequence of rows, the surrogate key
    dim_time,            \* of a row being its position
    dim_soil,
    dim_weather,
    fact,                \* fact_sensor_readings: a sequence of rows
    cycles,              \* the number of runs of the job so far
    fresh,               \* rows were added to the source after the last run
    extracted_ever,      \* history: the event_id of every row a run extracted
    load,                \* history: the last run, and the warehouse before it
    jobs                 \* runs of the job in progress at the same time: for each
                         \* its position in the script, last_ts and new_data_df

throttle_vars == <<now, last_sent, consecutive_counts, threshold, call, emitted>>
reading_vars == <<reading, stage, validation, alerts>>
batch_vars ==
    <<stream, pc, records, idx, processed_count, error_count, alert_count, puts, publishes,
      response>>
loader_vars ==
    <<source, dim_location, dim_time, dim_soil, dim_weather, fact, cycles, fresh,
      extracted_ever, load, jobs>>
vars == <<throttle_vars, reading_vars, batch_vars, loader_vars>>

(***************************************************************************)
(* Alerts and throttle keys                                                *)
(***************************************************************************)
CRITICAL == "CRITICAL"
HIGH == "HIGH"
MEDIUM == "MEDIUM"

\* an alert dict; description is the pair the description text varies with
Alert(type, priority, description) ==
    [type |-> type, priority |-> priority, description |-> description]

\* alert_key = f"{loc_id}|{alert_type}"
AlertKey(loc_id, alert) == <<loc_id, alert.type>>

\* the candidate alerts driven through the throttle: one CRITICAL type and one
\* type that handle_alerts produces with two different priorities
ThrottleAlerts ==
    { Alert("Sensor Failure", CRITICAL, <<"", 0>>),
      Alert("Soil pH Warning", HIGH, <<"", 0>>),
      Alert("Soil pH Warning", MEDIUM, <<"", 0>>) }

ThrottleLocs == {"loc_1"}

ThrottleKeys == { AlertKey(l, a) : l \in ThrottleLocs, a \in ThrottleAlerts }

(***************************************************************************)
(* check_and_send_alert                                                    *)
(***************************************************************************)
\* if alert.get("priority") == "CRITICAL"
BypassesThrottleNever(alert) == FALSE
BypassesThrottle(alert) == alert.priority = CRITICAL

\* last_sent = alert_state["last_sent"].get(alert_key)
\* if last_sent: time_since_last = now - last_sent
\*               if time_since_last < ALERT_INTERVAL: return False
InTimeWindowShort(ls, key, t) ==
    /\ ls[key] # NoEntry
    /\ t - ls[key] < ALERT_INTERVAL - 1
InTimeWindowLate(ls, key, t) ==
    /\ ls[key] # NoEntry
    /\ t - ls[key] <= ALERT_INTERVAL
InTimeWindow(ls, key, t) ==
    /\ ls[key] # NoEntry
    /\ t - ls[key] < ALERT_INTERVAL

\* a count that starts from 1 for a key without an entry
NextCountFromOne(cc, key) == (IF cc[key] = NoEntry THEN 1 ELSE cc[key]) + 1

\* count = alert_state["consecutive_counts"].get(alert_key, 0) + 1
NextCount(cc, key) == (IF cc[key] = NoEntry THEN 0 ELSE cc[key]) + 1

\* The whole function, as a value: the new alert_state, the return value and
\* whether send_alert was called.
CheckAndSendAlert(ls, cc, thr, alert, loc_id, t) ==
    LET key == AlertKey(loc_id, alert) IN
    IF BypassesThrottle(alert)
    THEN [last_sent |-> [ls EXCEPT ![key] = t],
          consecutive_counts |-> cc,
          ret |-> TRUE, send |-> TRUE]
    ELSE IF InTimeWindow(ls, key, t)
    THEN [last_sent |-> ls, consecutive_counts |-> cc,
          ret |-> FALSE, send |-> FALSE]
    ELSE LET count == NextCount(cc, key) IN
         IF count >= thr
         THEN [last_sent |-> [ls EXCEPT ![key] = t],
               consecutive_counts |-> [cc EXCEPT ![key] = 0],
               ret |-> TRUE, send |-> TRUE]
         ELSE [last_sent |-> ls,
               consecutive_counts |-> [cc EXCEPT ![key] = count],
               ret |-> FALSE, send |-> FALSE]

(***************************************************************************)
(* The purge at the start of lambda_handler                                *)
(***************************************************************************)
\* a purge that takes the entries that are exactly one hour old as well
OldKeysFromAge(ls, t) == { k \in DOMAIN ls : ls[k] # NoEntry /\ t - ls[k] >= PURGE_AGE }

\* a purge that takes every key, whatever its age
OldKeysOfAnyAge(ls, t) == { k \in DOMAIN ls : ls[k] # NoEntry }

\* old_keys: (current_time - last_time).total_seconds() > 3600
OldKeys(ls, t) == { k \in DOMAIN ls : ls[k] # NoEntry /\ t - ls[k] > PURGE_AGE }

PurgeMap(m, old) == [k \in DOMAIN m |-> IF k \in old THEN NoEntry ELSE m[k]]

(***************************************************************************)
(* The throttle as a state machine: the clock, the purge of a handler      *)
(* invocation, and one check_and_send_alert call per candidate alert.      *)
(***************************************************************************)
NoCall == [kind |-> "none"]

ThrottleInit ==
    /\ now = 0
    /\ last_sent = [k \in ThrottleKeys |-> NoEntry]
    /\ consecutive_counts = [k \in ThrottleKeys |-> NoEntry]
    /\ threshold = CONSECUTIVE_RECORDS_THRESHOLD
    /\ call = NoCall
    /\ emitted = [k \in ThrottleKeys |-> NoEntry]

\* the process was started with CONSECUTIVE_RECORDS_THRESHOLD set to thr
\* (line 21), with the alert_state of line 24
MaxThreshold == 3

ConfiguredInit ==
    /\ now = 0
    /\ last_sent = [k \in ThrottleKeys |-> NoEntry]
    /\ consecutive_counts = [k \in ThrottleKeys |-> NoEntry]
    /\ threshold \in 1..MaxThreshold
    /\ call = NoCall
    /\ emitted = [k \in ThrottleKeys |-> NoEntry]

\* time passes between two readings of the clock
Tick ==
    /\ now < MaxTime
    /\ now' = now + 1
    /\ call' = NoCall
    /\ UNCHANGED <<last_sent, consecutive_counts, threshold, emitted>>
    /\ UNCHANGED <<reading_vars, batch_vars, loader_vars>>

\* a longer time passes: one that ends the time window of every key, or one
\* after which every entry is old enough to be purged
Elapse(d) ==
    /\ now + d <= MaxTime
    /\ now' = now + d
    /\ call' = NoCall
    /\ UNCHANGED <<last_sent, consecutive_counts, threshold, emitted>>
    /\ UNCHANGED <<reading_vars, batch_vars, loader_vars>>

\* lambda_handler starts and random.random() < 0.1
HandlerPurge ==
    /\ LET old == OldKeys(last_sent, now) IN
        /\ last_sent' = PurgeMap(last_sent, old)
        /\ consecutive_counts' = PurgeMap(consecutive_counts, old)
        /\ call' = [kind |-> "purge", old |-> old]
    /\ UNCHANGED <<now, threshold, emitted>>
    /\ UNCHANGED <<reading_vars, batch_vars, loader_vars>>

\* check_and_send_alert(alert, loc_id, ...); delivered: sns_client.publish succeeded.
\* call records the inputs, the alert_state before the call, the outcome, and
\* gap: the minutes since the previous non-CRITICAL emission of the key.
CheckAlert(alert, loc_id, delivered) ==
    /\ \E r \in { CheckAndSendAlert(last_sent, consecutive_counts, threshold,
                                     alert, loc_id, now) } :
       LET key == AlertKey(loc_id, alert)
           nonCritEmit == r.ret /\ alert.priority # CRITICAL
       IN /\ last_sent' = r.last_sent
          /\ consecutive_counts' = r.consecutive_counts
          /\ emitted' = IF nonCritEmit THEN [emitted EXCEPT ![key] = now] ELSE emitted
          /\ call' = [kind |-> "check", key |-> key,
                      priority |-> alert.priority, at |-> now,
                      before |-> [last_sent |-> last_sent,
                                  consecutive_counts |-> consecutive_counts],
                      ret |-> r.ret, send |-> r.send,
                      delivered |-> r.send /\ delivered,
                      gap |-> IF nonCritEmit /\ emitted[key] # NoEntry
                              THEN now - emitted[key] ELSE NoEntry]
    /\ UNCHANGED <<now, threshold>>
    /\ UNCHANGED <<reading_vars, batch_vars, loader_vars>>

ThrottleNext ==
    \/ Tick
    \/ HandlerPurge
    \/ \E a \in ThrottleAlerts, l \in ThrottleLocs, d \in BOOLEAN : CheckAlert(a, l, d)

ThresholdNext ==
    \/ \E d \in {ALERT_INTERVAL, PURGE_AGE + 1} : Elapse(d)
    \/ HandlerPurge
    \/ \E a \in ThrottleAlerts, l \in ThrottleLocs, d \in BOOLEAN : CheckAlert(a, l, d)


(***************************************************************************)
(* Readings                                                                *)
(*                                                                         *)
(* A sensor value is a JSON value: a number (kind "num", n in hundredths), *)
(* a float NaN ("nan"), a string ("str", s), null ("none"), or the key is  *)
(* not in sensor_data ("absent").                                          *)
(***************************************************************************)
NumV(n) == [kind |-> "num", n |-> n, s |-> ""]
StrV(s) == [kind |-> "str", n |-> 0, s |-> s]
NoneV == [kind |-> "none", n |-> 0, s |-> ""]
AbsentV == [kind |-> "absent", n |-> 0, s |-> ""]
NanV == [kind |-> "nan", n |-> 0, s |-> ""]

\* EXPECTED_RANGES_PER_LOCATION, (min, max) in hundredths
EXPECTED_RANGES_PER_LOCATION ==
    [ loc_1 |-> [temperature |-> <<1000, 5000>>, humidity |-> <<3000, 9000>>,
                 water_level |-> <<50, 300>>, nitrogen |-> <<8000, 15000>>,
                 phosphorus |-> <<4000, 8000>>, potassium |-> <<4000, 8000>>,
                 ph |-> <<600, 800>>],
      loc_2 |-> [temperature |-> <<1500, 5500>>, humidity |-> <<2500, 8000>>,
                 water_level |-> <<30, 250>>, nitrogen |-> <<7000, 14000>>,
                 phosphorus |-> <<3000, 7000>>, potassium |-> <<3000, 7000>>,
                 ph |-> <<650, 850>>],
      loc_3 |-> [temperature |-> <<1200, 5200>>, humidity |-> <<2800, 8500>>,
                 water_level |-> <<40, 280>>, nitrogen |-> <<7500, 14500>>,
                 phosphorus |-> <<3500, 7500>>, potassium |-> <<3500, 7500>>,
                 ph |-> <<620, 820>>] ]

Locations == DOMAIN EXPECTED_RANGES_PER_LOCATION

\* the iteration order of location_ranges.items()
SensorNames ==
    <<"temperature", "humidity", "water_level", "nitrogen", "phosphorus",
      "potassium", "ph">>

SensorSet == { SensorNames[i] : i \in DOMAIN SensorNames }

\* required_keys
RequiredKeys == <<"event_id", "timestamp", "sensor_data", "weather_data", "location">>

RequiredKeySet == { RequiredKeys[i] : i \in DOMAIN RequiredKeys }

(***************************************************************************)
(* validate_record                                                         *)
(***************************************************************************)
\* error and warning codes, as tuples: <<"sensor_data", name, suffix>> is the
\* string f"sensor_data:{name}_{suffix}"
SensorCode(name, suffix) == <<"sensor_data", name, suffix>>

\* extreme_values = [0, 9999, -9999, '0', '9999', '-9999', 'null', 'NULL', 'NaN', None]
ExtremeNumbers == {0, 999900, -999900}
ExtremeTexts == {"0", "9999", "-9999", "null", "NULL", "NaN"}

\* val in extreme_values (Python ==: a number equals a number of the same value,
\* a string an identical string, None is None; NaN equals nothing)
IsExtremeValue(val) ==
    \/ val.kind = "num" /\ val.n \in ExtremeNumbers
    \/ val.kind = "str" /\ val.s \in ExtremeTexts
    \/ val.kind \in {"none", "absent"}

\* float(val) for a string: the number in hundredths, NaN, or ValueError
ParseFloat(s) ==
    CASE s = "25.0"  -> NumV(2500)
      [] s = "0.0"   -> NumV(0)
      [] s = "0"     -> NumV(0)
      [] s = "9999"  -> NumV(999900)
      [] s = "-9999" -> NumV(-999900)
      [] s \in {"nan", "NaN"} -> NanV
      [] OTHER       -> [kind |-> "error", n |-> 0, s |-> s]

\* buffer = (max_val - min_val) * 0.1 ; (min_val - buffer), (max_val + buffer).
\* The source computes these in IEEE-754 binary64. A computed bound is the pair
\* <<hundredths, r>>: the decimal result and the sign r of the rounding error of
\* the computed double against the double nearest to that decimal (0: equal).
\* All (min, max) of the table give r = 0 except:
\*   loc_2 water_level: 0.3 - 2.2 * 0.1 = 0.07999999999999996   (below 0.08)
\*   loc_3 water_level: 0.4 - 2.4 * 0.1 = 0.16000000000000003   (above 0.16)
\*   loc_3 ph:          8.2 + 2.0 * 0.1 = 8.399999999999999     (below 8.4)
RoundingOfLower(loc, name) ==
    CASE loc = "loc_2" /\ name = "water_level" -> -1
      [] loc = "loc_3" /\ name = "water_level" -> 1
      [] OTHER -> 0

RoundingOfUpper(loc, name) ==
    CASE loc = "loc_3" /\ name = "ph" -> -1
      [] OTHER -> 0

MinVal(loc, name) == EXPECTED_RANGES_PER_LOCATION[loc][name][1]
MaxVal(loc, name) == EXPECTED_RANGES_PER_LOCATION[loc][name][2]

\* a buffer of half the range instead of a tenth
BufferOfHalfRange(loc, name) == (MaxVal(loc, name) - MinVal(loc, name)) \div 2

\* (max_val - min_val) * 0.1 as a decimal, in hundredths (exact for the table)
Buffer(loc, name) == (MaxVal(loc, name) - MinVal(loc, name)) \div 10

\* (min_val - buffer) <= val, val a double nearest to n hundredths
AboveLowerBuffer(loc, name, n) ==
    LET b == MinVal(loc, name) - Buffer(loc, name) IN
    \/ b < n
    \/ b = n /\ RoundingOfLower(loc, name) <= 0

\* val <= (max_val + buffer)
BelowUpperBuffer(loc, name, n) ==
    LET b == MaxVal(loc, name) + Buffer(loc, name) IN
    \/ n < b
    \/ n = b /\ RoundingOfUpper(loc, name) >= 0

\* min_val <= val <= max_val
InRange(loc, name, n) == MinVal(loc, name) <= n /\ n <= MaxVal(loc, name)

\* (min_val - buffer) <= val <= (max_val + buffer)
InBuffer(loc, name, n) == AboveLowerBuffer(loc, name, n) /\ BelowUpperBuffer(loc, name, n)

\* One pass of the loop "for sensor_name, (min_val, max_val) in ...": the codes
\* the sensor adds and the value sensor_data[sensor_name] holds afterwards.
\* A NaN compares false with everything: not in range, not in the buffer.
RangeCheck(loc, name, val) ==
    IF val.kind = "num" /\ InRange(loc, name, val.n)
    THEN [errors |-> <<>>, warnings |-> <<>>]
    ELSE IF val.kind = "num" /\ InBuffer(loc, name, val.n)
    THEN [errors |-> <<>>, warnings |-> <<SensorCode(name, "near_threshold")>>]
    ELSE [errors |-> <<SensorCode(name, "out_of_range")>>, warnings |-> <<>>]

CheckSensor(loc, name, val) ==
    IF IsExtremeValue(val)
    THEN [errors |-> <<SensorCode(name, "extreme_value")>>, warnings |-> <<>>,
          stored |-> val]
    ELSE IF val.kind \in {"none", "absent"}
    THEN [errors |-> <<SensorCode(name, "missing")>>, warnings |-> <<>>,
          stored |-> val]
    ELSE IF val.kind \notin {"num", "nan"}
    THEN LET converted == ParseFloat(val.s) IN
         IF converted.kind = "error"
         THEN [errors |-> <<SensorCode(name, "invalid_type")>>, warnings |-> <<>>,
               stored |-> val]
         ELSE LET r == RangeCheck(loc, name, converted) IN
              [errors |-> r.errors,
               warnings |-> <<SensorCode(name, "type_converted")>> \o r.warnings,
               stored |-> converted]
    ELSE LET r == RangeCheck(loc, name, val) IN
         [errors |-> r.errors, warnings |-> r.warnings, stored |-> val]

\* errors, warnings and sensor_data after one more pass: the codes of the pass
\* are appended, and sensor_data[sensor_name] holds what the pass stored
AfterSensor(acc, name, c) ==
    [errors |-> acc.errors \o c.errors,
     warnings |-> acc.warnings \o c.warnings,
     sensor_data |-> [acc.sensor_data EXCEPT ![name] = c.stored]]

\* the loop over location_ranges.items(), from sensor i on; acc holds errors,
\* warnings and sensor_data as the passes before i left them
RECURSIVE SensorLoop(_, _, _)
SensorLoop(loc, acc, i) ==
    IF i > Len(SensorNames) THEN acc
    ELSE SensorLoop(loc,
                    AfterSensor(acc, SensorNames[i],
                                CheckSensor(loc, SensorNames[i],
                                            acc.sensor_data[SensorNames[i]])),
                    i + 1)

\* A reading (the decoded JSON object):
\*   loc_id       the value of data.get("loc_id"): a string, or Absent for None
\*   keys         the required top-level keys the object holds
\*   sensor_data  sensor name -> value (all AbsentV when the object holds no
\*                "sensor_data" or an empty one)
\*   weather_temp weather_data["temperature_2m"]: a number, or AbsentV when the
\*                object holds no "weather_data" or it holds no "temperature_2m"
Absent == "<absent>"

\* if not loc_id
LocIdMissingNever(data) == FALSE
LocIdMissing(data) == data.loc_id \in {Absent, ""}

\* sensor_data = data.get("sensor_data", {}) ; if not sensor_data
SensorDataEmpty(data) ==
    \/ "sensor_data" \notin data.keys
    \/ \A name \in SensorSet : data.sensor_data[name].kind = "absent"

\* for key in required_keys: if key not in data: errors.append(...)
RECURSIVE MissingKeyErrors(_, _)
MissingKeyErrors(data, i) ==
    IF i > Len(RequiredKeys) THEN <<>>
    ELSE (IF RequiredKeys[i] \in data.keys THEN <<>>
          ELSE << <<"missing_top_level_key", RequiredKeys[i]>> >>)
         \o MissingKeyErrors(data, i + 1)

\* sensor_temp - weather_temp is computed in IEEE-754 binary64. For two
\* temperatures whose decimal difference is 15.00 or -15.00, the sign of
\* abs(computed difference) - 15 (0: the computed difference is exact). Of the
\* pairs of temperatures of the model all give 0 except:
\*   36.2 - 21.2 = 15.000000000000004
RoundingOfDifference(s, w) ==
    CASE s = 3620 /\ w = 2120 -> 1
      [] OTHER -> 0

Magnitude(d) == IF d < 0 THEN -d ELSE d

\* abs(sensor_temp - weather_temp) > 15
TemperatureMismatch(sensor_temp, weather_temp) ==
    /\ sensor_temp.kind = "num"
    /\ \/ Magnitude(sensor_temp.n - weather_temp.n) > 1500
       \/ /\ Magnitude(sensor_temp.n - weather_temp.n) = 1500
          /\ RoundingOfDifference(sensor_temp.n, weather_temp.n) > 0

\* The cross-validation block. sensor_temp - weather_temp raises TypeError when
\* sensor_data["temperature"] is a string or None.
CrossCheck(data, sensor_data) ==
    IF /\ sensor_data["temperature"].kind # "absent"
       /\ "weather_data" \in data.keys
       /\ data.weather_temp.kind # "absent"
    THEN LET sensor_temp == sensor_data["temperature"]
             weather_temp == data.weather_temp
         IN IF sensor_temp.kind \in {"str", "none"}
            THEN [raised |-> TRUE, warnings |-> <<>>]
            ELSE [raised |-> FALSE,
                  warnings |-> IF TemperatureMismatch(sensor_temp, weather_temp)
                               THEN << <<"temperature_mismatch", sensor_temp.n,
                                          weather_temp.n>> >>
                               ELSE <<>>]
    ELSE [raised |-> FALSE, warnings |-> <<>>]

\* "Determine overall status"
OverallStatusWarningFirst(errors, warnings) ==
    IF warnings # <<>> THEN "WARNING"
    ELSE IF errors # <<>> THEN "INVALID"
    ELSE "VALID"
OverallStatus(errors, warnings) ==
    IF errors # <<>> THEN "INVALID"
    ELSE IF warnings # <<>> THEN "WARNING"
    ELSE "VALID"

Returned(status, errors, warnings, sensor_data) ==
    [outcome |-> "returned", status |-> status, errors |-> errors,
     warnings |-> warnings, sensor_data |-> sensor_data]

\* the end of validate_record: the warnings of the cross-validation are
\* appended and the status is determined, unless the cross-validation raised
AfterCrossCheck(errors, loop, cross) ==
    IF cross.raised
    THEN [outcome |-> "raised", status |-> "", errors |-> errors,
          warnings |-> loop.warnings, sensor_data |-> loop.sensor_data]
    ELSE Returned(OverallStatus(errors, loop.warnings \o cross.warnings), errors,
                  loop.warnings \o cross.warnings, loop.sensor_data)

\* validate_record from the cross-validation on; loop is what the sensor loop
\* left (its errors follow those of the required keys in the list errors)
AfterSensorLoop(data, keyErrors, loop) ==
    AfterCrossCheck(keyErrors \o loop.errors, loop, CrossCheck(data, loop.sensor_data))

\* validate_record from the "sensor_data" check on
AfterRequiredKeys(data, keyErrors) ==
    IF SensorDataEmpty(data)
    THEN Returned("INVALID", keyErrors \o << <<"missing_sensor_data">> >>, <<>>,
                  data.sensor_data)
    ELSE AfterSensorLoop(data, keyErrors,
                         SensorLoop(data.loc_id,
                                    [errors |-> <<>>, warnings |-> <<>>,
                                     sensor_data |-> data.sensor_data], 1))

\* validate_record(data): what it returns (or that it raised), and sensor_data
\* as it leaves it
ValidateRecord(data) ==
    IF LocIdMissing(data)
    THEN Returned("INVALID", << <<"missing_loc_id">> >>, <<>>, data.sensor_data)
    ELSE IF data.loc_id \notin Locations
    THEN Returned("INVALID", << <<"invalid_loc_id", data.loc_id>> >>, <<>>,
                  data.sensor_data)
    ELSE AfterRequiredKeys(data, MissingKeyErrors(data, 1))

(***************************************************************************)
(* handle_alerts                                                           *)
(***************************************************************************)
\* sensor_errors = [e for e in errors if e.startswith("sensor_data")]
IsSensorError(e) == e[1] = "sensor_data"

\* the chain with a fourth branch, which classifies an uncoercible value too
ErrorTypeOfAnyFault(e) ==
    CASE e[3] = "extreme_value" -> "sensor_failure"
      [] e[3] = "missing"       -> "sensor_disconnected"
      [] e[3] = "out_of_range"  -> "sensor_malfunction"
      [] e[3] = "invalid_type"  -> "sensor_malfunction"
      [] OTHER                  -> "none"

\* the if/elif chain on "extreme_value" / "missing" / "out_of_range" in error
ErrorType(e) ==
    CASE e[3] = "extreme_value" -> "sensor_failure"
      [] e[3] = "missing"       -> "sensor_disconnected"
      [] e[3] = "out_of_range"  -> "sensor_malfunction"
      [] OTHER                  -> "none"

\* error_types (a Python set)
ErrorTypes(errors) ==
    { ErrorType(errors[i]) : i \in { j \in DOMAIN errors : IsSensorError(errors[j]) } }
        \ {"none"}

\* "for error_type in error_types": a set is iterated in an unspecified order
Orderings(S) ==
    { seq \in [1..Cardinality(S) -> S] : \A x \in S : \E i \in DOMAIN seq : seq[i] = x }

\* the CRITICAL alerts of an INVALID record, for one iteration order
CriticalAlerts(order) ==
    [i \in DOMAIN order |-> Alert("Sensor Failure", CRITICAL, <<order[i], 0>>)]

IsNumber(val) == val.kind = "num"

\* Temperature alerts
TemperatureAlerts(sensor_data) ==
    LET temp == sensor_data["temperature"] IN
    IF ~IsNumber(temp) THEN <<>>
    ELSE IF temp.n > 3500
    THEN <<Alert("High Temperature", HIGH, <<"temperature", temp.n>>)>>
    ELSE IF temp.n < 500
    THEN <<Alert("Low Temperature", HIGH, <<"temperature", temp.n>>)>>
    ELSE <<>>

\* Water level alerts
WaterLevelAlerts(sensor_data) ==
    LET water_level == sensor_data["water_level"] IN
    IF ~IsNumber(water_level) THEN <<>>
    ELSE IF water_level.n < 100
    THEN <<Alert("Low Water Level", HIGH, <<"water_level", water_level.n>>)>>
    ELSE IF water_level.n > 250
    THEN <<Alert("High Water Level", MEDIUM, <<"water_level", water_level.n>>)>>
    ELSE <<>>

\* Soil pH alerts
SoilPhAlerts(sensor_data) ==
    LET ph_level == sensor_data["ph"] IN
    IF ~IsNumber(ph_level) THEN <<>>
    ELSE IF ph_level.n < 600 \/ ph_level.n > 750
    THEN <<Alert("Soil pH Warning",
                 IF ph_level.n < 550 \/ ph_level.n > 800 THEN HIGH ELSE MEDIUM,
                 <<"ph", ph_level.n>>)>>
    ELSE <<>>

\* Nutrient alerts: value < min_val * 0.8 (min_val * 0.8 is exact for the table)
Nutrients == <<"nitrogen", "phosphorus", "potassium">>

RECURSIVE NutrientAlerts(_, _, _)
NutrientAlerts(loc_id, sensor_data, i) ==
    IF i > Len(Nutrients) THEN <<>>
    ELSE LET nutrient == Nutrients[i]
             value == sensor_data[nutrient]
         IN (IF IsNumber(value) /\ value.n * 10 < MinVal(loc_id, nutrient) * 8
             THEN <<Alert("Low Nutrient", MEDIUM, <<nutrient, value.n>>)>>
             ELSE <<>>)
            \o NutrientAlerts(loc_id, sensor_data, i + 1)

\* loc_id = data.get("loc_id", "unknown")
LocIdOrUnknown(d) == IF d.loc_id = Absent THEN "unknown" ELSE d.loc_id

\* "Operational alerts for valid data"
OperationalAlerts(loc_id, sensor_data) ==
    TemperatureAlerts(sensor_data) \o WaterLevelAlerts(sensor_data)
        \o SoilPhAlerts(sensor_data) \o NutrientAlerts(loc_id, sensor_data, 1)

\* handle_alerts(record, status, errors): the alert lists it may return (one per
\* iteration order of error_types)
HandleAlerts(loc_id, sensor_data, status, errors) ==
    IF status = "INVALID"
    THEN { CriticalAlerts(order) : order \in Orderings(ErrorTypes(errors)) }
    ELSE IF status \in {"VALID", "WARNING"}
    THEN { OperationalAlerts(loc_id, sensor_data) }
    ELSE { <<>> }

(***************************************************************************)
(* The readings the validator is run on: a healthy reading of a location   *)
(* with at most MaxFaults fields changed.                                  *)
(***************************************************************************)
\* a healthy reading, as the producer generates it
HealthyReading(loc) ==
    [loc_id |-> loc,
     keys |-> RequiredKeySet,
     sensor_data |->
        [name \in SensorSet |->
            CASE name = "temperature" -> NumV(2500)
              [] name = "humidity"    -> NumV(6000)
              [] name = "water_level" -> NumV(150)
              [] name = "nitrogen"    -> NumV(11000)
              [] name = "phosphorus"  -> NumV(6000)
              [] name = "potassium"   -> NumV(6000)
              [] name = "ph"          -> NumV(700)],
     weather_temp |-> NumV(2500)]

\* The values a faulty sensor is given. The temperature, which the
\* cross-validation reads as well, is given every sentinel, texts that float()
\* accepts or rejects, NaN, a hot 36.2, and numbers on either side of each edge
\* of the range and of its buffer; the other sensors a sentinel of each type and the same
\* numbers.
EdgeProbes(loc, name) ==
    LET lo == MinVal(loc, name) - Buffer(loc, name)
        hi == MaxVal(loc, name) + Buffer(loc, name)
    IN << NumV(lo - 1), NumV(lo), NumV(MinVal(loc, name) - 1),
          NumV(MaxVal(loc, name) + 1), NumV(hi), NumV(hi + 1) >>

SensorProbes(loc, name) ==
    IF name = "temperature"
    THEN << NumV(0), NumV(999900), NumV(-999900),
            StrV("0"), StrV("9999"), StrV("-9999"), StrV("null"), StrV("NULL"),
            StrV("NaN"), NoneV, AbsentV,
            StrV("FAIL"), StrV("nan"), StrV("0.0"), StrV("25.0"), NanV, NumV(3620) >>
         \o EdgeProbes(loc, name)
    ELSE << NumV(0), StrV("NULL"), AbsentV >> \o EdgeProbes(loc, name)

\* weather temperatures: none, exactly 15 and 16 degrees off the healthy 25.0,
\* and exactly 15 degrees off the hot 36.2
WeatherProbes == << AbsentV, NumV(4000), NumV(4100), NumV(2120) >>

LocIdProbes == << Absent, "", "loc_9" >>

\* a fault: one field of the reading, and the value it is given
Fault(field, name, value, text) ==
    [field |-> field, name |-> name, value |-> value, text |-> text]

RECURSIVE SensorFaults(_, _)
SensorFaults(loc, i) ==
    IF i > Len(SensorNames) THEN <<>>
    ELSE LET probes == SensorProbes(loc, SensorNames[i]) IN
         [j \in DOMAIN probes |-> Fault("sensor", SensorNames[i], probes[j], "")]
            \o SensorFaults(loc, i + 1)

\* every fault of a reading of location loc, in a fixed order
Faults(loc) ==
    SensorFaults(loc, 1)
    \o << Fault("sensor_data", "", AbsentV, "") >>
    \o [j \in DOMAIN RequiredKeys |-> Fault("key", RequiredKeys[j], AbsentV, "")]
    \o [j \in DOMAIN WeatherProbes |-> Fault("weather", "", WeatherProbes[j], "")]
    \o [j \in DOMAIN LocIdProbes |-> Fault("loc_id", "", AbsentV, LocIdProbes[j])]

\* an object without "sensor_data" has no sensor values, one without
\* "weather_data" no weather temperature
Normalised(d) ==
    [d EXCEPT !.sensor_data = IF "sensor_data" \in d.keys THEN @
                              ELSE [name \in SensorSet |-> AbsentV],
              !.weather_temp = IF "weather_data" \in d.keys THEN @ ELSE AbsentV]

WithFault(d, f) ==
    CASE f.field = "sensor"      -> [d EXCEPT !.sensor_data[f.name] = f.value]
      [] f.field = "sensor_data" -> [d EXCEPT !.sensor_data = [n \in SensorSet |-> AbsentV]]
      [] f.field = "key"         -> [d EXCEPT !.keys = @ \ {f.name}]
      [] f.field = "weather"     -> [d EXCEPT !.weather_temp = f.value]
      [] f.field = "loc_id"      -> [d EXCEPT !.loc_id = f.text]

\* the choices of at most k faults among the faults numbered from..n
RECURSIVE FaultChoices(_, _, _)
FaultChoices(from, n, k) ==
    IF k = 0 THEN { <<>> }
    ELSE { <<>> } \cup
         UNION { { <<i>> \o rest : rest \in FaultChoices(i + 1, n, k - 1) } : i \in from..n }

RECURSIVE WithFaults(_, _, _, _)
WithFaults(d, faults, choice, i) ==
    IF i > Len(choice) THEN d
    ELSE WithFaults(WithFault(d, faults[choice[i]]), faults, choice, i + 1)

\* the number of faults is the same for every location
NumFaults == Len(Faults("loc_1"))

\* the choices that give each field at most one fault
FaultField(i) == LET f == Faults("loc_1")[i] IN <<f.field, f.name>>

FaultFieldTable == [i \in 1..NumFaults |-> FaultField(i)]

ReadingChoices ==
    { c \in FaultChoices(1, NumFaults, MaxFaults) :
        \A i, j \in DOMAIN c : i < j => FaultFieldTable[c[i]] # FaultFieldTable[c[j]] }

\* Faults, tabulated once
FaultTable == [loc \in Locations |-> Faults(loc)]

FaultyReading(loc, choice) ==
    Normalised(WithFaults(HealthyReading(loc), FaultTable[loc], choice, 1))

(***************************************************************************)
(* The validator and the alert rules as a state machine: a decoded reading *)
(* is validated, then its alerts are derived (the first two stages of the  *)
(* try block of lambda_handler).                                           *)
(***************************************************************************)
NoValidation ==
    [outcome |-> "none", status |-> "", errors |-> <<>>, warnings |-> <<>>,
     sensor_data |-> [name \in SensorSet |-> AbsentV]]

ReadingInit ==
    /\ \E loc \in Locations, choice \in ReadingChoices :
          reading = FaultyReading(loc, choice)
    /\ stage = "decoded"
    /\ validation = NoValidation
    /\ alerts = <<>>

\* status, errors, warnings = validate_record(data); validation.sensor_data is
\* data["sensor_data"] as the call left it (reading keeps the values received)
Validate ==
    /\ stage = "decoded"
    /\ \E r \in { ValidateRecord(reading) } :
        /\ validation' = r
        /\ stage' = IF r.outcome = "raised" THEN "failed" ELSE "validated"
    /\ UNCHANGED <<reading, alerts>>
    /\ UNCHANGED <<throttle_vars, batch_vars, loader_vars>>

\* alerts = handle_alerts(data, status, errors, warnings)
DeriveAlerts ==
    /\ stage = "validated"
    /\ alerts' \in HandleAlerts(LocIdOrUnknown(reading), validation.sensor_data,
                                validation.status, validation.errors)
    /\ stage' = "alerted"
    /\ UNCHANGED <<reading, validation>>
    /\ UNCHANGED <<throttle_vars, batch_vars, loader_vars>>

ReadingNext == Validate \/ DeriveAlerts

(***************************************************************************)
(* lambda_handler                                                          *)
(*                                                                         *)
(* A payload of the batch is named by what it holds:                       *)
(*   bad_base64     record["kinesis"]["data"] is not base64                *)
(*   bad_utf8       the decoded bytes are not UTF-8                        *)
(*   bad_json       the text is not JSON                                   *)
(*   json_list      the text is JSON, but not an object                    *)
(*   the others     the text is a reading                                  *)
(***************************************************************************)
ReadingPayloads ==
    {"healthy", "hot", "hot_dry", "near", "sentinel_number", "sentinel_text",
     "no_loc_id"}

Payloads == {"bad_base64", "bad_utf8", "bad_json", "json_list"} \cup ReadingPayloads

\* json.loads(payload) of a reading payload
ReadingOf(p) ==
    LET h == HealthyReading("loc_1") IN
    CASE p = "hot"             -> [h EXCEPT !.sensor_data["temperature"] = NumV(3800)]
      [] p = "hot_dry"         -> [h EXCEPT !.sensor_data["temperature"] = NumV(3800),
                                            !.sensor_data["water_level"] = NumV(80)]
      [] p = "near"            -> [h EXCEPT !.sensor_data["ph"] = NumV(810)]
      [] p = "sentinel_number" -> [h EXCEPT !.sensor_data["humidity"] = NumV(999900)]
      [] p = "sentinel_text"   -> [h EXCEPT !.sensor_data["temperature"] = StrV("NULL")]
      [] p = "no_loc_id"       -> [h EXCEPT !.loc_id = Absent]
      [] OTHER                 -> h

\* The decoding statements of the try block: where they raise, and the value
\* the variable payload holds at that point (None until both b64decode and
\* decode("utf-8") have succeeded).
NoPayload == "<None>"

Decode(p) ==
    CASE p = "bad_base64" -> [raises |-> "Exception", payload |-> NoPayload]
      [] p = "bad_utf8"   -> [raises |-> "Exception", payload |-> NoPayload]
      [] p = "bad_json"   -> [raises |-> "JSONDecodeError", payload |-> p]
      [] p = "json_list"  -> [raises |-> "Exception", payload |-> p]
      [] OTHER            -> [raises |-> "no", payload |-> p]

\* the alert keys of the process-wide alert_state
AlertTypes ==
    {"Sensor Failure", "High Temperature", "Low Temperature", "Low Water Level",
     "High Water Level", "Soil pH Warning", "Low Nutrient"}

AllKeys == { <<l, t>> : l \in Locations, t \in AlertTypes }

\* a loop that puts each alert sent in front of those sent before it
RECURSIVE ProcessAlertsNewestFirst(_, _, _, _, _, _, _)
ProcessAlertsNewestFirst(ls, cc, thr, list, loc_id, t, i) ==
    IF i > Len(list)
    THEN [last_sent |-> ls, consecutive_counts |-> cc, sent |-> <<>>]
    ELSE LET r == CheckAndSendAlert(ls, cc, thr, list[i], loc_id, t)
             rest == ProcessAlertsNewestFirst(r.last_sent, r.consecutive_counts, thr,
                                              list, loc_id, t, i + 1)
         IN [last_sent |-> rest.last_sent,
             consecutive_counts |-> rest.consecutive_counts,
             sent |-> rest.sent \o (IF r.ret THEN <<list[i]>> ELSE <<>>)]

\* "for alert in alerts: alert_sent = check_and_send_alert(...)": the
\* alert_state it leaves and the alerts for which it returned True, in order
RECURSIVE ProcessAlerts(_, _, _, _, _, _, _)
ProcessAlerts(ls, cc, thr, list, loc_id, t, i) ==
    IF i > Len(list)
    THEN [last_sent |-> ls, consecutive_counts |-> cc, sent |-> <<>>]
    ELSE LET r == CheckAndSendAlert(ls, cc, thr, list[i], loc_id, t)
             rest == ProcessAlerts(r.last_sent, r.consecutive_counts, thr, list,
                                   loc_id, t, i + 1)
         IN [last_sent |-> rest.last_sent,
             consecutive_counts |-> rest.consecutive_counts,
             sent |-> (IF r.ret THEN <<list[i]>> ELSE <<>>) \o rest.sent]

\* "Upload to appropriate S3 location based on status"
StatusPrefixAllValid(status) == "valid/"
StatusPrefix(status) ==
    IF status = "VALID" THEN "valid/"
    ELSE IF status = "WARNING" THEN "valid/warnings/"
    ELSE "invalid/"

\* a key the document does not hold: "alerts" and "alerts_sent" are set only to
\* non-empty lists, so the empty sequence stands for the missing key
NotSet == << >>

\* A put_object call: the record of the batch it is made for, the prefix and
\* loc_id of the key, and of the document: error_type and raw_payload (error
\* artifacts), validation_status, alerts and alerts_sent (readings).

Put(i, prefix, loc_id, error_type, raw_payload, status, list, sent, ok) ==
    [index |-> i, prefix |-> prefix, loc_id |-> loc_id, error_type |-> error_type,
     raw_payload |-> raw_payload, status |-> status,
     alerts |-> IF list = <<>> THEN NotSet ELSE list,
     alerts_sent |-> IF sent = <<>> THEN NotSet ELSE sent,
     ok |-> ok]

\* "raw_payload": payload or "Unable to decode base64"  (except JSONDecodeError)
\* "raw_payload": payload                               (except Exception)
RawPayload(raises, payload, p) ==
    IF raises = "JSONDecodeError"
    THEN (IF payload = NoPayload THEN "Unable to decode base64" ELSE payload)
    ELSE payload

\* the counters after a record: processed_count += 1 at the end of the try
\* block, error_count += 1 at the start of either except block
CountsAfterDroppingErrors(path, processed, errored) ==
    IF path = "processed" THEN <<processed + 1, errored>> ELSE <<processed, errored>>
CountsAfter(path, processed, errored) ==
    IF path = "processed" THEN <<processed + 1, errored>> ELSE <<processed, errored + 1>>

\* what a record leaves: the path taken ("processed", "json_decode_error" or
\* "processing_error"), alert_state, the number of candidate alerts, the
\* publish calls and the put_object calls
Outcome(path, throttle, candidates, published, put) ==
    [path |-> path, throttle |-> throttle, candidates |-> candidates,
     published |-> published, put |-> put]

\* either except block: the error artifact is uploaded, alert_state untouched
Failed(path, prefix, i, loc_id, raw_payload, ls, cc, s3_ok) ==
    Outcome(path, [last_sent |-> ls, consecutive_counts |-> cc, sent |-> <<>>], 0,
            <<>>,
            << Put(i, prefix, loc_id, path, raw_payload, "UNKNOWN", <<>>, <<>>,
                   s3_ok) >>)

\* a handler that publishes the alerts of a reading only once its put worked
UploadedThenPublished(i, loc_id, status, list, th, sns_ok, s3_ok) ==
    Outcome("processed", th, Len(list),
            IF s3_ok
            THEN [k \in DOMAIN th.sent |->
                    [index |-> i, loc_id |-> loc_id, alert |-> th.sent[k], ok |-> sns_ok]]
            ELSE << >>,
            << Put(i, StatusPrefix(status), loc_id, "", "", status, list, th.sent,
                   s3_ok) >>)

\* a handler whose upload_to_s3 lets the failure of put_object through: the
\* except block of the handler then uploads an error artifact for the record
UploadedOrFailed(i, loc_id, status, list, th, sns_ok, s3_ok) ==
    Outcome(IF s3_ok THEN "processed" ELSE "processing_error", th, Len(list),
            [k \in DOMAIN th.sent |->
                [index |-> i, loc_id |-> loc_id, alert |-> th.sent[k], ok |-> sns_ok]],
            << Put(i, StatusPrefix(status), loc_id, "", "", status, list, th.sent,
                   s3_ok) >>
            \o (IF s3_ok THEN << >>
                ELSE << Put(i, "errors/processing/", loc_id, "processing_error", "",
                            "UNKNOWN", <<>>, <<>>, s3_ok) >>))

\* the try block from "Upload to appropriate S3 location" on; th is what the
\* loop over the alerts left
Uploaded(i, loc_id, status, list, th, sns_ok, s3_ok) ==
    Outcome("processed", th, Len(list),
            [k \in DOMAIN th.sent |->
                [index |-> i, loc_id |-> loc_id, alert |-> th.sent[k], ok |-> sns_ok]],
            << Put(i, StatusPrefix(status), loc_id, "", "", status, list, th.sent,
                   s3_ok) >>)

\* a handler whose throttle takes a decision back when the publish failed:
\* alert_state is left as it was and the reading is not annotated
ValidatedUnlessUndelivered(p, i, d, v, ls, cc, thr, t, list, sns_ok, s3_ok) ==
    IF v.outcome = "raised"
    THEN Failed("processing_error", "errors/processing/", i, d.loc_id,
                RawPayload("Exception", p, p), ls, cc, s3_ok)
    ELSE LET th == ProcessAlerts(ls, cc, thr, list, LocIdOrUnknown(d), t, 1) IN
         IF sns_ok
         THEN Uploaded(i, LocIdOrUnknown(d), v.status, list, th, sns_ok, s3_ok)
         ELSE Outcome("processed",
                      [last_sent |-> ls, consecutive_counts |-> cc, sent |-> <<>>],
                      Len(list),
                      [k \in DOMAIN th.sent |->
                          [index |-> i, loc_id |-> LocIdOrUnknown(d),
                           alert |-> th.sent[k], ok |-> sns_ok]],
                      << Put(i, StatusPrefix(v.status), LocIdOrUnknown(d), "", "",
                             v.status, list, <<>>, s3_ok) >>)

\* the try block after validate_record(data) gave v; list is the alert list
\* handle_alerts returned. When validate_record raised, the except block reads
\* error_data["loc_id"] = partial_data.get("loc_id").
Validated(p, i, d, v, ls, cc, thr, t, list, sns_ok, s3_ok) ==
    IF v.outcome = "raised"
    THEN Failed("processing_error", "errors/processing/", i, d.loc_id,
                RawPayload("Exception", p, p), ls, cc, s3_ok)
    ELSE Uploaded(i, LocIdOrUnknown(d), v.status, list,
                  ProcessAlerts(ls, cc, thr, list, LocIdOrUnknown(d), t, 1),
                  sns_ok, s3_ok)

\* the try block after json.loads(payload) gave the reading d
Loaded(p, i, d, ls, cc, thr, t, list, sns_ok, s3_ok) ==
    Validated(p, i, d, ValidateRecord(d), ls, cc, thr, t, list, sns_ok, s3_ok)

\* the body of "for record in event['Records']" for the payload p at position
\* i; dec is what the decoding statements did
Decoded(p, i, dec, ls, cc, thr, t, list, sns_ok, s3_ok) ==
    IF dec.raises = "JSONDecodeError"
    THEN Failed("json_decode_error", "errors/json_decode/", i, "unknown",
                RawPayload(dec.raises, dec.payload, p), ls, cc, s3_ok)
    ELSE IF dec.raises = "Exception"
    THEN Failed("processing_error", "errors/processing/", i, "unknown",
                RawPayload(dec.raises, dec.payload, p), ls, cc, s3_ok)
    ELSE Loaded(p, i, ReadingOf(p), ls, cc, thr, t, list, sns_ok, s3_ok)

ProcessOne(p, i, ls, cc, thr, t, list, sns_ok, s3_ok) ==
    Decoded(p, i, Decode(p), ls, cc, thr, t, list, sns_ok, s3_ok)

\* the alert lists handle_alerts may return for the reading d that
\* validate_record gave v (one, unless error_types holds more than one type)
AlertsOf(d, v) ==
    IF v.outcome = "raised" THEN { <<>> }
    ELSE HandleAlerts(LocIdOrUnknown(d), v.sensor_data, v.status, v.errors)

AlertsOfReading(d) == AlertsOf(d, ValidateRecord(d))

\* ... and for the payload p (none when it does not decode)
AlertChoices(p) ==
    IF Decode(p).raises # "no" THEN { <<>> } ELSE AlertsOfReading(ReadingOf(p))

\* what the transport may hold: at most MaxBatch payloads
Streams == UNION { [1..n -> Payloads] : n \in 0..MaxBatch }

NoResponse ==
    [statusCode |-> 0, processed_records |-> 0, error_records |-> 0,
     total_alerts_generated |-> 0]

\* before the first invocation
HandlerIdle ==
    /\ pc = "idle"
    /\ records = <<>>
    /\ idx = 1
    /\ processed_count = 0
    /\ error_count = 0
    /\ alert_count = 0
    /\ puts = <<>>
    /\ publishes = <<>>
    /\ response = NoResponse

BatchInit ==
    /\ stream \in Streams
    /\ HandlerIdle

\* lambda_handler(event, context) is entered with the next n payloads of the
\* stream: the purge (when random.random() is below 0.1), then the counters
\* are zeroed
Invoke(n, purge) ==
    /\ pc \in {"idle", "returned"}
    /\ n <= Len(stream)
    /\ pc' = "running"
    /\ records' = SubSeq(stream, 1, n)
    /\ stream' = SubSeq(stream, n + 1, Len(stream))
    /\ idx' = 1
    /\ processed_count' = 0
    /\ error_count' = 0
    /\ alert_count' = 0
    /\ puts' = <<>>
    /\ publishes' = <<>>
    /\ response' = NoResponse
    /\ LET old == IF purge THEN OldKeys(last_sent, now) ELSE {} IN
        /\ last_sent' = PurgeMap(last_sent, old)
        /\ consecutive_counts' = PurgeMap(consecutive_counts, old)
    /\ UNCHANGED <<now, threshold, call, emitted>>
    /\ UNCHANGED <<reading_vars, loader_vars>>

\* one iteration of "for record in event['Records']"
ProcessRecord(sns_ok, s3_ok) ==
    /\ pc = "running"
    /\ idx <= Len(records)
    /\ \E list \in AlertChoices(records[idx]) :
       \E r \in { ProcessOne(records[idx], idx, last_sent, consecutive_counts,
                              threshold, now, list, sns_ok, s3_ok) } :
       \E counts \in { CountsAfter(r.path, processed_count, error_count) } :
           /\ last_sent' = r.throttle.last_sent
           /\ consecutive_counts' = r.throttle.consecutive_counts
           /\ processed_count' = counts[1]
           /\ error_count' = counts[2]
           /\ alert_count' = alert_count + r.candidates
           /\ puts' = puts \o r.put
           /\ publishes' = publishes \o r.published
    /\ idx' = idx + 1
    /\ UNCHANGED <<stream, pc, records, response>>
    /\ UNCHANGED <<now, threshold, call, emitted>>
    /\ UNCHANGED <<reading_vars, loader_vars>>

\* "Prepare response" ... return response
Return ==
    /\ pc = "running"
    /\ idx > Len(records)
    /\ pc' = "returned"
    /\ response' = [statusCode |-> 200, processed_records |-> processed_count,
                    error_records |-> error_count,
                    total_alerts_generated |-> alert_count]
    /\ UNCHANGED <<stream, records, idx, processed_count, error_count, alert_count,
                   puts, publishes>>
    /\ UNCHANGED throttle_vars
    /\ UNCHANGED <<reading_vars, loader_vars>>

BatchNext ==
    \/ \E n \in 0..MaxBatch, purge \in BOOLEAN : Invoke(n, purge)
    \/ \E sns_ok \in BOOLEAN, s3_ok \in BOOLEAN : ProcessRecord(sns_ok, s3_ok)
    \/ Return

(***************************************************************************)
(* The warehouse loader: s3-to-redshift.py                                 *)
(*                                                                         *)
(* Column values are small integers: a timestamp is a number of ticks      *)
(* after the epoch, loc_id 1 and 2 stand for "loc_1" and "loc_2", and      *)
(* every other value is a code for a number of the source column.          *)
(***************************************************************************)
\* SQL NULL
Null == -1

\* '1970-01-01 00:00:00.000'
EPOCH == 0

MaxReadings == 2
MaxCycles == 3
MaxStamp == 2

\* a = b in a WHERE or ON clause: not true when either side is NULL
SqlEq(a, b) == a # Null /\ b # Null /\ a = b

SqlEqAll(s, t) == \A k \in DOMAIN s : SqlEq(s[k], t[k])

\* the values of the k-th column of a dimension
Column(dim, k) == { dim[i][k] : i \in DOMAIN dim }

\* x NOT IN (SELECT column ...), as a WHERE condition
NotIn(x, column) == x # Null /\ \A y \in column : y # Null /\ y # x

\* WHERE [NOT] EXISTS (SELECT 1 FROM dim WHERE dim.c1 = nv.c1 AND ...)
Exists(dim, attrs) == \E i \in DOMAIN dim : SqlEqAll(dim[i], attrs)

\* the natural key (the attribute tuple) a row of the source has in each
\* dimension; year, month, day, hour and minute are functions of full_date
LocationOf(v) == << v.loc_id, v.latitude, v.longitude >>

TimeOf(v) == << v.timestamp >>

SoilOf(v) == << v.ph, v.nitrogen, v.phosphorus, v.potassium >>

WeatherOf(v) ==
    << v.weather_temperature_2m, v.weather_relative_humidity_2m,
       v.weather_wind_speed_10m, v.weather_wind_direction_10m, v.weather_rain,
       v.weather_surface_pressure >>

\* SELECT MAX(full_date) FROM fact_sensor_readings, the epoch when it is NULL
Later(a, b) == IF b = Null \/ a > b THEN a ELSE b

RECURSIVE MaxFullDate(_, _)
MaxFullDate(f, i) ==
    IF i > Len(f) THEN Null ELSE Later(f[i].full_date, MaxFullDate(f, i + 1))

\* a watermark that ignores the fact table
LastTimestampEpoch(f) == EPOCH

LastTimestamp(f) == IF MaxFullDate(f, 1) = Null THEN EPOCH ELSE MaxFullDate(f, 1)

\* a filter that keeps the rows at the watermark as well
ExtractFromWatermark(src, last_ts) ==
    { v \in src : v.timestamp # Null /\ v.timestamp >= last_ts }

\* valid_readings_df.filter(col("timestamp") > last_ts)
Extract(src, last_ts) == { v \in src : v.timestamp # Null /\ v.timestamp > last_ts }

\* the rows an INSERT ... SELECT DISTINCT appends; the order in which the
\* database assigns the surrogate keys of one statement is immaterial
RECURSIVE InSomeOrder(_)
First(S) == CHOOSE y \in S : TRUE

InSomeOrder(S) ==
    IF S = {} THEN << >> ELSE << First(S) >> \o InSomeOrder(S \ { First(S) })

NewLocations(new, dim) ==
    { LocationOf(nv) :
        nv \in { v \in new : v.loc_id # Null /\ NotIn(v.loc_id, Column(dim, 1)) } }

NewTimes(new, dim) ==
    { TimeOf(nv) :
        nv \in { v \in new : v.timestamp # Null /\ NotIn(v.timestamp, Column(dim, 1)) } }

\* a dim_soil insert without its NOT EXISTS condition
NewSoilsUnconditional(new, dim) ==
    { SoilOf(nv) :
        nv \in { v \in new : /\ v.ph # Null
                             /\ v.nitrogen # Null
                             /\ v.phosphorus # Null
                             /\ v.potassium # Null } }

NewSoils(new, dim) ==
    { SoilOf(nv) :
        nv \in { v \in new : /\ ~Exists(dim, SoilOf(v))
                             /\ v.ph # Null
                             /\ v.nitrogen # Null
                             /\ v.phosphorus # Null
                             /\ v.potassium # Null } }

NewWeathers(new, dim) ==
    { WeatherOf(nv) :
        nv \in { v \in new : /\ ~Exists(dim, WeatherOf(v))
                             /\ v.weather_temperature_2m # Null } }

\* a fact insert that joins dim_soil without a condition
JoinsAnySoil(v, l, w, s, t, dl, dw, ds, dt) ==
    /\ SqlEqAll(LocationOf(v), dl[l])
    /\ SqlEqAll(WeatherOf(v), dw[w])
    /\ SqlEq(v.timestamp, dt[t][1])

\* the ON conditions of the four inner joins of the fact insert
Joins(v, l, w, s, t, dl, dw, ds, dt) ==
    /\ SqlEqAll(LocationOf(v), dl[l])
    /\ SqlEqAll(WeatherOf(v), dw[w])
    /\ SqlEqAll(SoilOf(v), ds[s])
    /\ SqlEq(v.timestamp, dt[t][1])

FactRow(v, l, w, s, t, dt) ==
    [evt_id |-> v.event_id, location_key |-> l, weather_key |-> w, soil_key |-> s,
     full_date |-> dt[t][1]]

NewFacts(new, dl, dw, ds, dt) ==
    { FactRow(x[1], x[2], x[3], x[4], x[5], dt) :
        x \in { y \in new \X (DOMAIN dl) \X (DOMAIN dw) \X (DOMAIN ds) \X (DOMAIN dt) :
                  Joins(y[1], y[2], y[3], y[4], y[5], dl, dw, ds, dt) } }

\* the rows of valid_readings: what the producer sends and the validator
\* stores under valid/, a field the weather service left out being NULL
SourceRow(id, ts, loc, lat, soil, weather) ==
    [event_id |-> id, timestamp |-> ts, loc_id |-> loc, latitude |-> lat,
     longitude |-> loc, ph |-> soil[1], nitrogen |-> soil[2], phosphorus |-> soil[3],
     potassium |-> soil[4], weather_temperature_2m |-> weather[1],
     weather_relative_humidity_2m |-> weather[2], weather_wind_speed_10m |-> weather[3],
     weather_wind_direction_10m |-> weather[4], weather_rain |-> weather[5],
     weather_surface_pressure |-> weather[6]]

RowKinds == {"optimal", "other_weather", "no_rain", "moved", "no_ph"}

RowOf(kind, id, ts) ==
    CASE kind = "optimal" ->
           SourceRow(id, ts, 1, 1, << 1, 1, 1, 1 >>, << 1, 1, 1, 1, 1, 1 >>)
      [] kind = "other_weather" ->
           SourceRow(id, ts, 1, 1, << 1, 1, 1, 1 >>, << 2, 1, 1, 1, 1, 1 >>)
      [] kind = "no_rain" ->
           SourceRow(id, ts, 2, 2, << 2, 1, 1, 1 >>, << 1, 1, 1, 1, Null, 1 >>)
      [] kind = "moved" ->
           SourceRow(id, ts, 1, 2, << 1, 1, 1, 1 >>, << 1, 1, 1, 1, 1, 1 >>)
      [] kind = "no_ph" ->
           SourceRow(id, ts, 2, 2, << Null, 1, 1, 1 >>, << 1, 1, 1, 1, 1, 1 >>)

Stages ==
    {"watermark", "source", "dim_location", "dim_time", "dim_soil", "dim_weather", "fact"}

Warehouse(dl, dt, ds, dw, f) ==
    [dim_location |-> dl, dim_time |-> dt, dim_soil |-> ds, dim_weather |-> dw,
     fact |-> f]

NoLoad ==
    [ran |-> FALSE, failed |-> {}, last_ts |-> EPOCH, source |-> {}, extracted |-> {},
     repeat |-> FALSE,
     before |-> Warehouse(<< >>, << >>, << >>, << >>, << >>)]

\* the runs of the job that may overlap
Workers == {"run_a", "run_b"}

NoJob == [pc |-> "idle", last_ts |-> EPOCH, new |-> {}]

LoaderIdle ==
    /\ source = {}
    /\ dim_location = << >>
    /\ dim_time = << >>
    /\ dim_soil = << >>
    /\ dim_weather = << >>
    /\ fact = << >>
    /\ cycles = 0
    /\ fresh = FALSE
    /\ extracted_ever = {}
    /\ load = NoLoad
    /\ jobs = [w \in Workers |-> NoJob]

\* a reading reaches valid_readings
AddReading(kind, ts) ==
    /\ Cardinality(source) < MaxReadings
    /\ source' = source \cup { RowOf(kind, Cardinality(source) + 1, ts) }
    /\ fresh' = TRUE
    /\ UNCHANGED <<dim_location, dim_time, dim_soil, dim_weather, fact, cycles,
                   extracted_ever, load, jobs>>
    /\ UNCHANGED <<throttle_vars, reading_vars, batch_vars>>

\* the statements of one run that take effect: none when nothing was
\* extracted or the read of the source raised, and otherwise each statement
\* execute_sql_query did not catch an exception of
Runs(new, failed, statement) ==
    new # {} /\ "source" \notin failed /\ statement \notin failed

\* one run of the job from its first statement to its last, the stages in
\* failed raising an exception; counted is the number of runs after it
RunOnce(failed, counted) ==
    /\ \E last_ts \in { IF "watermark" \in failed THEN EPOCH ELSE LastTimestamp(fact) } :
       \E new \in { Extract(source, last_ts) } :
          /\ dim_location' =
                IF Runs(new, failed, "dim_location")
                THEN dim_location \o InSomeOrder(NewLocations(new, dim_location))
                ELSE dim_location
          /\ dim_time' =
                IF Runs(new, failed, "dim_time")
                THEN dim_time \o InSomeOrder(NewTimes(new, dim_time))
                ELSE dim_time
          /\ dim_soil' =
                IF Runs(new, failed, "dim_soil")
                THEN dim_soil \o InSomeOrder(NewSoils(new, dim_soil))
                ELSE dim_soil
          /\ dim_weather' =
                IF Runs(new, failed, "dim_weather")
                THEN dim_weather \o InSomeOrder(NewWeathers(new, dim_weather))
                ELSE dim_weather
          /\ fact' =
                IF Runs(new, failed, "fact")
                THEN fact \o InSomeOrder(NewFacts(new, dim_location', dim_weather',
                                                  dim_soil', dim_time'))
                ELSE fact
          /\ extracted_ever' =
                IF "source" \in failed THEN extracted_ever
                ELSE extracted_ever \cup { v.event_id : v \in new }
          /\ load' = [ran |-> TRUE, failed |-> failed, last_ts |-> last_ts,
                      source |-> source,
                      extracted |-> IF "source" \in failed THEN {} ELSE new,
                      repeat |-> cycles > 0 /\ ~fresh,
                      before |-> Warehouse(dim_location, dim_time, dim_soil,
                                           dim_weather, fact)]
    /\ cycles' = counted
    /\ fresh' = FALSE
    /\ UNCHANGED <<source, jobs>>
    /\ UNCHANGED <<throttle_vars, reading_vars, batch_vars>>

\* one of the first MaxCycles runs of the job
Cycle(failed) ==
    /\ cycles < MaxCycles
    /\ RunOnce(failed, cycles + 1)

\* a run in which nothing fails
LoadCycle == Cycle({})

\* a run in which one stage raises
FailingCycle(lost) == Cycle({lost})

\* the job is run again and again, one run after the other and none failing;
\* the count of the runs starts again from 1 after MaxCycles
ScheduledCycle == RunOnce({}, IF cycles < MaxCycles THEN cycles + 1 ELSE 1)

(***************************************************************************)
(* Two runs of the job at the same time. Nothing in the script keeps a     *)
(* second run from starting; each statement a run sends to the database is *)
(* one step, and the steps of the two runs interleave in any order.        *)
(***************************************************************************)
\* the run w moves on to the statement next, having read last_ts and new
Moves(w, next, last_ts, new) ==
    jobs' = [jobs EXCEPT ![w] = [pc |-> next, last_ts |-> last_ts, new |-> new]]

At(w, pos) == jobs[w].pc = pos

\* SELECT MAX(full_date) AS last_ts FROM fact_sensor_readings
ReadWatermark(w) ==
    /\ jobs[w].pc \in {"idle", "done"}
    /\ cycles < MaxCycles
    /\ cycles' = cycles + 1
    /\ Moves(w, "extract", LastTimestamp(fact), {})
    /\ UNCHANGED <<source, dim_location, dim_time, dim_soil, dim_weather, fact, fresh,
                   extracted_ever, load>>
    /\ UNCHANGED <<throttle_vars, reading_vars, batch_vars>>

\* the read of valid_readings, the filter and the test new_data_df.rdd.isEmpty()
ExtractRows(w) ==
    /\ At(w, "extract")
    /\ \E new \in { Extract(source, jobs[w].last_ts) } :
          Moves(w, IF new = {} THEN "done" ELSE "dim_location", jobs[w].last_ts, new)
    /\ UNCHANGED <<source, dim_location, dim_time, dim_soil, dim_weather, fact, cycles,
                   fresh, extracted_ever, load>>
    /\ UNCHANGED <<throttle_vars, reading_vars, batch_vars>>

InsertLocations(w) ==
    /\ At(w, "dim_location")
    /\ dim_location' = dim_location \o InSomeOrder(NewLocations(jobs[w].new, dim_location))
    /\ Moves(w, "dim_time", jobs[w].last_ts, jobs[w].new)
    /\ UNCHANGED <<source, dim_time, dim_soil, dim_weather, fact, cycles, fresh,
                   extracted_ever, load>>
    /\ UNCHANGED <<throttle_vars, reading_vars, batch_vars>>

InsertTimes(w) ==
    /\ At(w, "dim_time")
    /\ dim_time' = dim_time \o InSomeOrder(NewTimes(jobs[w].new, dim_time))
    /\ Moves(w, "dim_soil", jobs[w].last_ts, jobs[w].new)
    /\ UNCHANGED <<source, dim_location, dim_soil, dim_weather, fact, cycles, fresh,
                   extracted_ever, load>>
    /\ UNCHANGED <<throttle_vars, reading_vars, batch_vars>>

InsertSoils(w) ==
    /\ At(w, "dim_soil")
    /\ dim_soil' = dim_soil \o InSomeOrder(NewSoils(jobs[w].new, dim_soil))
    /\ Moves(w, "dim_weather", jobs[w].last_ts, jobs[w].new)
    /\ UNCHANGED <<source, dim_location, dim_time, dim_weather, fact, cycles, fresh,
                   extracted_ever, load>>
    /\ UNCHANGED <<throttle_vars, reading_vars, batch_vars>>

InsertWeathers(w) ==
    /\ At(w, "dim_weather")
    /\ dim_weather' = dim_weather \o InSomeOrder(NewWeathers(jobs[w].new, dim_weather))
    /\ Moves(w, "fact", jobs[w].last_ts, jobs[w].new)
    /\ UNCHANGED <<source, dim_location, dim_time, dim_soil, fact, cycles, fresh,
                   extracted_ever, load>>
    /\ UNCHANGED <<throttle_vars, reading_vars, batch_vars>>

InsertFacts(w) ==
    /\ At(w, "fact")
    /\ fact' = fact \o InSomeOrder(NewFacts(jobs[w].new, dim_location, dim_weather,
                                            dim_soil, dim_time))
    /\ Moves(w, "done", jobs[w].last_ts, jobs[w].new)
    /\ UNCHANGED <<source, dim_location, dim_time, dim_soil, dim_weather, cycles, fresh,
                   extracted_ever, load>>
    /\ UNCHANGED <<throttle_vars, reading_vars, batch_vars>>

ConcurrentNext ==
    \/ \E kind \in RowKinds, ts \in 1..MaxStamp : AddReading(kind, ts)
    \/ \E w \in Workers : ReadWatermark(w)
    \/ \E w \in Workers : ExtractRows(w)
    \/ \E w \in Workers : InsertLocations(w)
    \/ \E w \in Workers : InsertTimes(w)
    \/ \E w \in Workers : InsertSoils(w)
    \/ \E w \in Workers : InsertWeathers(w)
    \/ \E w \in Workers : InsertFacts(w)

LoaderNext ==
    \/ \E kind \in RowKinds, ts \in 1..MaxStamp : AddReading(kind, ts)
    \/ LoadCycle

\* the readings without a NULL column (with one, a dimension gets a new row
\* in every run and the tables grow without bound)
CompleteKinds == {"optimal", "other_weather", "moved"}

LoaderLiveNext ==
    \/ \E kind \in CompleteKinds, ts \in 1..MaxStamp : AddReading(kind, ts)
    \/ ScheduledCycle

LoaderFaultNext ==
    \/ \E kind \in RowKinds, ts \in 1..MaxStamp : AddReading(kind, ts)
    \/ LoadCycle
    \/ \E lost \in Stages : FailingCycle(lost)

(***************************************************************************)
(* Specifications                                                          *)
(***************************************************************************)
\* the parts a specification does not run stay as constructed
ThrottleIdle ==
    /\ now = 0
    /\ last_sent = [k \in AllKeys |-> NoEntry]
    /\ consecutive_counts = [k \in AllKeys |-> NoEntry]
    /\ threshold = CONSECUTIVE_RECORDS_THRESHOLD
    /\ call = NoCall
    /\ emitted = [k \in AllKeys |-> NoEntry]

ReadingIdle ==
    /\ reading = HealthyReading("loc_1")
    /\ stage = "idle"
    /\ validation = NoValidation
    /\ alerts = <<>>

BatchIdle ==
    /\ stream = <<>>
    /\ HandlerIdle

\* the throttle under any sequence of candidate alerts, purges and clock ticks
ThrottleStart == ThrottleInit /\ ReadingIdle /\ BatchIdle /\ LoaderIdle

ThrottleSpec == ThrottleStart /\ [][ThrottleNext]_vars

\* the throttle under every configured threshold
ThresholdStart == ConfiguredInit /\ ReadingIdle /\ BatchIdle /\ LoaderIdle

ThresholdSpec == ThresholdStart /\ [][ThresholdNext]_vars

\* validate_record and handle_alerts on every healthy or faulty reading
ReadingStart == ReadingInit /\ ThrottleIdle /\ BatchIdle /\ LoaderIdle

ReadingSpec == ReadingStart /\ [][ReadingNext]_vars

\* lambda_handler on the payloads of every stream, in batches of any sizes
BatchStart == BatchInit /\ ThrottleIdle /\ ReadingIdle /\ LoaderIdle

BatchSpec == BatchStart /\ [][BatchNext]_vars

\* the loader on a growing source, every run completing without an exception
LoaderStart == LoaderIdle /\ ThrottleIdle /\ ReadingIdle /\ BatchIdle

LoaderSpec == LoaderStart /\ [][LoaderNext]_vars

\* the loader on a growing source, a run losing any one of its stages
LoaderFaultStart == LoaderIdle /\ BatchIdle /\ ReadingIdle /\ ThrottleIdle

LoaderFaultSpec == LoaderFaultStart /\ [][LoaderFaultNext]_vars

\* the loader on a growing source of complete readings, run without end: a
\* run that can start does start
LoaderLiveStart == BatchIdle /\ LoaderIdle /\ ThrottleIdle /\ ReadingIdle

LoaderLiveSpec ==
    LoaderLiveStart /\ [][LoaderLiveNext]_vars /\ WF_vars(ScheduledCycle)

\* the loader on a growing source, two runs overlapping in any way
ConcurrentStart == ThrottleIdle /\ ReadingIdle /\ BatchIdle /\ LoaderIdle

ConcurrentSpec == ConcurrentStart /\ [][ConcurrentNext]_vars

(***************************************************************************)
(* Claims about the throttle (checked under ThrottleSpec)                  *)
(***************************************************************************)
IsCheck == call.kind = "check"

\* C1: two emissions of a non-CRITICAL alert for the same key are at least
\* ALERT_INTERVAL apart: whenever a non-CRITICAL candidate is emitted and the key
\* had an earlier non-CRITICAL emission, the latest of them (hence, the clock
\* being monotonic, every one of them) lies at least 5 minutes back. Purges
\* may have run in between.
C1_NonCriticalEmissionsSpaced ==
    (IsCheck /\ call.priority # CRITICAL /\ call.ret /\ call.gap # NoEntry)
        => call.gap >= ALERT_INTERVAL

\* a second emission of a key whose throttle entry a purge had removed
C1_Witness ==
    /\ IsCheck /\ call.priority # CRITICAL /\ call.ret
    /\ call.gap # NoEntry
    /\ call.before.last_sent[call.key] = NoEntry

\* C2: every CRITICAL candidate is emitted whatever the throttle state:
\* send_alert is called, last_sent[key] is set to now, True is returned.
C2_CriticalAlwaysEmits ==
    (IsCheck /\ call.priority = CRITICAL)
        => /\ call.ret
           /\ call.send
           /\ last_sent[call.key] = call.at
           /\ consecutive_counts = call.before.consecutive_counts

\* a CRITICAL candidate repeated in the same minute as the previous emission
C2_Witness ==
    /\ IsCheck /\ call.priority = CRITICAL /\ call.ret
    /\ call.before.last_sent[call.key] = call.at

\* C3: with threshold 1 a non-CRITICAL candidate is emitted iff last_sent[k] is
\* absent or at least 5 minutes old; an emission sets last_sent[k] to now; a
\* suppressed candidate leaves last_sent and consecutive_counts unchanged.
C3_EmitsIffOutsideWindow ==
    (IsCheck /\ call.priority # CRITICAL /\ threshold = 1)
        => LET prev == call.before.last_sent[call.key] IN
           /\ call.ret <=> (prev = NoEntry \/ call.at - prev >= ALERT_INTERVAL)
           /\ call.send = call.ret
           /\ call.ret => last_sent[call.key] = call.at
           /\ ~call.ret => /\ last_sent = call.before.last_sent
                           /\ consecutive_counts = call.before.consecutive_counts

\* an occurrence 6 minutes after the previous emission is emitted
C3_Witness ==
    /\ IsCheck /\ call.priority # CRITICAL /\ call.ret
    /\ call.before.last_sent[call.key] # NoEntry
    /\ call.at - call.before.last_sent[call.key] = ALERT_INTERVAL + 1

(***************************************************************************)
(* Claims about validate_record and handle_alerts (checked under           *)
(* ReadingSpec)                                                            *)
(***************************************************************************)
\* validate_record returned
HasReturned == stage \in {"validated", "alerted"}

\* validate_record returned or raised
HasRun == stage \in {"validated", "alerted", "failed"}

\* the reading names a configured location and holds some sensor value, so the
\* loop over the range table of its location runs
ReachesSensorLoop ==
    /\ reading.loc_id \in {"loc_1", "loc_2", "loc_3"}
    /\ \E name \in SensorSet : reading.sensor_data[name].kind # "absent"

\* the codes of a list that are about the quantity name
CodesOf(codes, name) ==
    { codes[i] : i \in { j \in DOMAIN codes :
                            codes[j][1] = "sensor_data" /\ codes[j][2] = name } }

\* C4: whenever validate_record returns, the status is INVALID iff errors is
\* non-empty, otherwise WARNING iff warnings is non-empty, otherwise VALID; on
\* every return path, the early returns included.
C4_StatusFollowsErrorsAndWarnings ==
    HasReturned =>
        /\ validation.outcome = "returned"
        /\ validation.status \in {"VALID", "WARNING", "INVALID"}
        /\ validation.status = "INVALID" <=> validation.errors # <<>>
        /\ validation.status = "WARNING" <=>
               (validation.errors = <<>> /\ validation.warnings # <<>>)
        /\ validation.status = "VALID" <=>
               (validation.errors = <<>> /\ validation.warnings = <<>>)

\* a reading returned with errors and with warnings (it is INVALID)
C4_Witness ==
    /\ HasReturned
    /\ validation.errors # <<>>
    /\ validation.warnings # <<>>
    /\ validation.status = "INVALID"

\* the sentinel values as the claim lists them
IsSentinel(val) ==
    \/ val.kind = "num" /\ val.n \in {0, 999900, -999900}
    \/ val.kind = "str" /\ val.s \in {"0", "9999", "-9999", "null", "NULL", "NaN"}
    \/ val.kind \in {"none", "absent"}

\* C5: for every reading in which a quantity of the range table of its location
\* is exactly a sentinel value, the validator yields the status INVALID and the
\* error <quantity>_extreme_value for that quantity.
C5_SentinelYieldsInvalid ==
    (HasRun /\ ReachesSensorLoop) =>
        \A name \in SensorSet :
            IsSentinel(reading.sensor_data[name]) =>
                /\ validation.outcome = "returned"
                /\ validation.status = "INVALID"
                /\ SensorCode(name, "extreme_value")
                       \in CodesOf(validation.errors, name)

\* ten percent of (max - min) of a quantity, in hundredths
TenPercent(loc, name) ==
    (EXPECTED_RANGES_PER_LOCATION[loc][name][2]
        - EXPECTED_RANGES_PER_LOCATION[loc][name][1]) \div 10

\* n lies outside [min, max] but at most ten percent of the range beyond the
\* nearer bound
InBufferZone(loc, name, n) ==
    LET min_val == EXPECTED_RANGES_PER_LOCATION[loc][name][1]
        max_val == EXPECTED_RANGES_PER_LOCATION[loc][name][2]
    IN \/ min_val - TenPercent(loc, name) <= n /\ n < min_val
       \/ max_val < n /\ n <= max_val + TenPercent(loc, name)

\* n lies more than ten percent of the range beyond a bound
BeyondBuffer(loc, name, n) ==
    LET min_val == EXPECTED_RANGES_PER_LOCATION[loc][name][1]
        max_val == EXPECTED_RANGES_PER_LOCATION[loc][name][2]
    IN n < min_val - TenPercent(loc, name) \/ n > max_val + TenPercent(loc, name)

\* C6: for every reading and every quantity whose numeric value lies outside
\* [min, max] but within 10% of (max - min) beyond the nearer bound, the
\* validator records the warning <quantity>_near_threshold and no error for
\* the quantity; a value beyond the buffer yields <quantity>_out_of_range; and
\* no sentinel number lies in the buffer zone of any location.
C6_BufferZoneOnlyWarns ==
    /\ \A loc \in Locations, name \in SensorSet, n \in {0, 999900, -999900} :
           ~InBufferZone(loc, name, n)
    /\ (HasReturned /\ ReachesSensorLoop) =>
        \A name \in SensorSet :
            LET val == reading.sensor_data[name] IN
            (val.kind = "num" /\ ~IsSentinel(val)) =>
                /\ InBufferZone(reading.loc_id, name, val.n) =>
                       /\ CodesOf(validation.warnings, name)
                              = { SensorCode(name, "near_threshold") }
                       /\ CodesOf(validation.errors, name) = {}
                /\ BeyondBuffer(reading.loc_id, name, val.n) =>
                       SensorCode(name, "out_of_range")
                           \in CodesOf(validation.errors, name)

\* C7: a reading whose loc_id is absent, or is not a configured location, is
\* INVALID with exactly one error (missing_loc_id, resp. invalid_loc_id:<id>)
\* and no warning, and no alert at all is derived from it.
C7_BadLocIdFailsFast ==
    (HasReturned /\ reading.loc_id \notin {"loc_1", "loc_2", "loc_3"}) =>
        /\ validation.status = "INVALID"
        /\ validation.errors =
               IF reading.loc_id \in {Absent, ""}
               THEN << <<"missing_loc_id">> >>
               ELSE << <<"invalid_loc_id", reading.loc_id>> >>
        /\ validation.warnings = <<>>
        /\ stage = "alerted" => alerts = <<>>

\* alerts were derived from a reading without loc_id whose temperature is a
\* sentinel and outside every threshold
C7_Witness ==
    /\ stage = "alerted"
    /\ reading.loc_id = Absent
    /\ reading.sensor_data["temperature"] = NumV(999900)
    /\ validation.errors = << <<"missing_loc_id">> >>
    /\ alerts = <<>>

(***************************************************************************)
(* Claims about lambda_handler (checked under BatchSpec)                   *)
(***************************************************************************)
\* C8: lambda_handler visits every record of the batch and returns its summary;
\* each visited record is counted exactly once, as processed or as an error,
\* whatever it holds and whether or not the sinks fail: processed_records +
\* error_records is the number of records of the batch.
C8_EveryRecordCountedOnce ==
    /\ pc = "running" =>
          /\ idx <= Len(records) + 1
          /\ processed_count + error_count = idx - 1
          /\ Len(puts) = idx - 1
    /\ pc = "returned" =>
          /\ idx = Len(records) + 1
          /\ response.statusCode = 200
          /\ response.processed_records + response.error_records = Len(records)
          /\ \A i \in DOMAIN records : puts[i].index = i

\* a batch returned in which a record was processed, another failed, and an
\* upload failed
C8_Witness ==
    /\ pc = "returned"
    /\ Len(records) > 1
    /\ response.processed_records > 0
    /\ response.error_records > 0
    /\ \E i \in DOMAIN puts : ~puts[i].ok

\* C9: a decoded reading for which validation and alert handling complete is
\* put under the prefix of its status and no other (VALID valid/, WARNING
\* valid/warnings/, INVALID invalid/); a reading whose validation raised is put
\* under errors/processing/.
C9_PrefixFollowsStatus ==
    \A k \in DOMAIN puts :
        LET p == records[puts[k].index] IN
        p \in ReadingPayloads =>
            LET v == ValidateRecord(ReadingOf(p)) IN
            IF v.outcome = "returned"
            THEN /\ puts[k].status = v.status
                 /\ v.status = "VALID" => puts[k].prefix = "valid/"
                 /\ v.status = "WARNING" => puts[k].prefix = "valid/warnings/"
                 /\ v.status = "INVALID" => puts[k].prefix = "invalid/"
            ELSE puts[k].prefix = "errors/processing/"

\* a batch of a reading with a warning and a reading whose validation raised
C9_Witness ==
    /\ Len(puts) = 2
    /\ records[1] = "near" /\ puts[1].prefix = "valid/warnings/"
    /\ records[2] = "sentinel_text" /\ puts[2].prefix = "errors/processing/"

\* C10: for every payload that fails to decode (base64, UTF-8 or JSON) the
\* error artifact put in the object store holds the raw payload, and the loop
\* goes on to the next record.
C10_RawPayloadPreserved ==
    \A k \in DOMAIN puts :
        LET p == records[puts[k].index] IN
        p \in {"bad_base64", "bad_utf8", "bad_json"} =>
            /\ puts[k].raw_payload = p
            /\ puts[k].index < idx

\* C11: the alerts figure of the returned summary is the number of alerts
\* emitted during the batch: the candidates for which check_and_send_alert
\* returned True; throttled candidates are not counted.
C11_SummaryCountsEmittedAlerts ==
    pc = "returned" => response.total_alerts_generated = Len(publishes)

(***************************************************************************)
(* Claims about the loader (checked under LoaderSpec and LoaderFaultSpec)  *)
(***************************************************************************)
\* the warehouse as it is now
Now == Warehouse(dim_location, dim_time, dim_soil, dim_weather, fact)

\* C12: a run that follows another run with no row added to the source in
\* between inserts nothing: every dimension and the fact table are as they
\* were before it, whatever the source holds (NULL attributes and rows the
\* first run did not join included).
C12_RepeatedRunInsertsNothing ==
    (load.ran /\ load.repeat) => Now = load.before

\* the fact rows of a row of the source
FactsOf(v) == { i \in DOMAIN fact : fact[i].evt_id = v.event_id }

NoDuplicates(dim) == \A i, j \in DOMAIN dim : dim[i] = dim[j] => i = j

\* C14: no dimension table holds two rows with the same natural key (the
\* same attribute tuple).
C14_DimensionsHaveUniqueKeys ==
    /\ NoDuplicates(dim_location)
    /\ NoDuplicates(dim_time)
    /\ NoDuplicates(dim_soil)
    /\ NoDuplicates(dim_weather)

\* C15: each fact row is the row of a reading of the source, and the rows its
\* keys reference in dim_location, dim_weather, dim_soil and dim_time exist
\* and carry the natural keys of that reading.
C15_FactRowsReferenceMatchingDimensions ==
    \A i \in DOMAIN fact :
        \E v \in source :
            /\ v.event_id = fact[i].evt_id
            /\ fact[i].location_key \in DOMAIN dim_location
            /\ dim_location[fact[i].location_key] = LocationOf(v)
            /\ fact[i].weather_key \in DOMAIN dim_weather
            /\ dim_weather[fact[i].weather_key] = WeatherOf(v)
            /\ fact[i].soil_key \in DOMAIN dim_soil
            /\ dim_soil[fact[i].soil_key] = SoilOf(v)
            /\ fact[i].full_date = v.timestamp
            /\ TimeOf(v) \in { dim_time[t] : t \in DOMAIN dim_time }

\* a reading was loaded while dim_soil held another soil and the source held
\* a reading that joins no soil
C15_Witness ==
    /\ fact # << >>
    /\ Len(dim_soil) >= 1
    /\ \E v \in load.extracted : v.ph = Null
    /\ \E v \in load.extracted : FactsOf(v) # {}

\* C16: a run whose watermark query fails on a warehouse that is not empty,
\* or one of whose SQL statements (a dimension insert or the fact insert)
\* fails, inserts no fact row, and the next run reads the watermark the
\* failed run had.
C16_FailedRunInsertsNoFact ==
    ( /\ load.ran
      /\ load.failed # {}
      /\ "source" \notin load.failed
      /\ "watermark" \in load.failed => load.before.fact # << >> )
        => /\ fact = load.before.fact
           /\ LastTimestamp(fact) = LastTimestamp(load.before.fact)

SoilRowsOf(v) == { i \in DOMAIN dim_soil : SqlEqAll(dim_soil[i], SoilOf(v)) }

\* C18: for every extracted reading (whatever other readings share its (ph,
\* nitrogen, phosphorus, potassium), in the same run or in other runs),
\* dim_soil holds exactly one row with that tuple, and every fact row of the
\* reading references that row. A tuple is shared when the four values are
\* equal, which no tuple with a NULL is.
C18_OneSoilRowPerTuple ==
    \A v \in source :
        (v.event_id \in extracted_ever /\ SqlEqAll(SoilOf(v), SoilOf(v)))
            => /\ Cardinality(SoilRowsOf(v)) = 1
               /\ \A i \in FactsOf(v) : fact[i].soil_key \in SoilRowsOf(v)

\* two readings with the same soil, loaded by two different runs
C18_Witness ==
    /\ Len(fact) = 2
    /\ Len(load.before.fact) = 1
    /\ \A v \in source : SqlEqAll(SoilOf(v), << 1, 1, 1, 1 >>)
    /\ fact[1].soil_key = fact[2].soil_key

(***************************************************************************)
(* Claims about one hot reading (checked under ReadingSpec)                *)
(***************************************************************************)
\* a loc_1 reading with every required key, every quantity a number within
\* its range, the temperature in (35, 50], the water level in [1.0, 2.5], the
\* pH in [6.0, 7.5] and a weather temperature at most 15 degrees away
HotReading ==
    /\ reading.loc_id = "loc_1"
    /\ reading.keys = RequiredKeySet
    /\ \A name \in SensorSet :
          /\ reading.sensor_data[name].kind = "num"
          /\ InRange("loc_1", name, reading.sensor_data[name].n)
    /\ reading.sensor_data["temperature"].n > 3500
    /\ reading.sensor_data["temperature"].n <= 5000
    /\ reading.sensor_data["water_level"].n >= 100
    /\ reading.sensor_data["water_level"].n <= 250
    /\ reading.sensor_data["ph"].n >= 600
    /\ reading.sensor_data["ph"].n <= 750
    /\ reading.weather_temp.kind = "num"
    /\ reading.sensor_data["temperature"].n - reading.weather_temp.n <= 1500
    /\ reading.weather_temp.n - reading.sensor_data["temperature"].n <= 1500

\* C19: a hot loc_1 reading (temperature in (35, 50], everything else in
\* range and in the operational bands, weather temperature within 15 degrees)
\* is VALID and yields exactly one alert, High Temperature of priority HIGH,
\* which is emitted when its key has no earlier emission.
C19_HotReadingIsValidWithOneAlert ==
    (stage = "alerted" /\ HotReading) =>
        /\ validation.status = "VALID"
        /\ Len(alerts) = 1
        /\ alerts[1].type = "High Temperature"
        /\ alerts[1].priority = HIGH
        /\ CheckAndSendAlert([k \in AllKeys |-> NoEntry], [k \in AllKeys |-> NoEntry],
                             CONSECUTIVE_RECORDS_THRESHOLD, alerts[1], "loc_1", 0).ret

(***************************************************************************)
(* Claims about the two sinks (checked under BatchSpec)                    *)
(***************************************************************************)
\* the alerts sns_client.publish was called with for record i, in call order
RECURSIVE PublishedFor(_, _)
PublishedFor(i, k) ==
    IF k > Len(publishes) THEN << >>
    ELSE (IF publishes[k].index = i THEN << publishes[k].alert >> ELSE << >>)
            \o PublishedFor(i, k + 1)

\* C20: the two sinks fail independently. Every publish call, the failing
\* ones included, belongs to a reading that is handed to put_object under the
\* prefix of its status; and for every reading, whether or not its put or
\* the put of an earlier record failed, publish was called for exactly the
\* alerts check_and_send_alert returned True for, every CRITICAL alert of the
\* reading among them.
C20_SinksFailIndependently ==
    /\ \A k \in DOMAIN publishes :
          \E j \in DOMAIN puts :
              /\ puts[j].index = publishes[k].index
              /\ puts[j].prefix = StatusPrefix(puts[j].status)
              /\ puts[j].alerts_sent # NotSet
    /\ \A j \in DOMAIN puts :
          puts[j].error_type = "" =>
              /\ PublishedFor(puts[j].index, 1)
                    = (IF puts[j].alerts_sent = NotSet THEN << >>
                       ELSE puts[j].alerts_sent)
              /\ puts[j].alerts # NotSet =>
                    \A a \in DOMAIN puts[j].alerts :
                        puts[j].alerts[a].priority = CRITICAL =>
                            \E k \in DOMAIN publishes :
                                /\ publishes[k].index = puts[j].index
                                /\ publishes[k].alert = puts[j].alerts[a]

\* the put of the first reading failed and its alert was published; the
\* publish of the alert of the second reading failed and the reading was put
C20_Witness ==
    /\ Len(puts) = 2
    /\ ~puts[1].ok
    /\ \E k \in DOMAIN publishes : publishes[k].index = 1 /\ publishes[k].ok
    /\ \E k \in DOMAIN publishes : publishes[k].index = 2 /\ ~publishes[k].ok
    /\ puts[2].ok
    /\ puts[2].error_type = ""

(***************************************************************************)
(* More claims about the loader (checked under LoaderSpec)                 *)
(***************************************************************************)
\* C21: a reading that a run extracted and the fact insert left out (it joined
\* no dimension row, so it has no fact row) is extracted again by the next
\* run, whatever other readings of the same run were inserted.
C21_UnjoinedReadingIsExtractedAgain ==
    [][ (load.ran /\ cycles' = cycles + 1)
            => \A v \in load.extracted :
                   FactsOf(v) = {} => v \in load'.extracted ]_vars

\* no column of the natural keys of the row is NULL
AllKeysSet(v) ==
    /\ v.timestamp # Null
    /\ \A k \in 1..3 : LocationOf(v)[k] # Null
    /\ \A k \in 1..4 : SoilOf(v)[k] # Null
    /\ \A k \in 1..6 : WeatherOf(v)[k] # Null

\* the attribute tuples a dimension holds
RowsOf(dim) == { dim[i] : i \in DOMAIN dim }

\* C22: after the dimension inserts of a run, every extracted reading whose
\* natural-key columns are all set has a row with exactly its attribute tuple
\* in dim_location, dim_time, dim_soil and dim_weather; a reading whose loc_id
\* is already in dim_location with another latitude or longitude included.
C22_ExtractedReadingHasDimensionRows ==
    load.ran =>
        \A v \in load.extracted :
            AllKeysSet(v) =>
                /\ LocationOf(v) \in RowsOf(dim_location)
                /\ TimeOf(v) \in RowsOf(dim_time)
                /\ SoilOf(v) \in RowsOf(dim_soil)
                /\ WeatherOf(v) \in RowsOf(dim_weather)

\* no attribute of the row of a dimension is NULL
NoNull(row) == \A k \in DOMAIN row : row[k] # Null

NoDuplicateKeys(dim) ==
    \A i, j \in DOMAIN dim : (NoNull(dim[i]) /\ dim[i] = dim[j]) => i = j

\* C23: under any interleaving of the stages of two runs in progress at the
\* same time, each reading has at most one fact row and each natural key (each
\* attribute tuple without a NULL) at most one row in its dimension.
C23_OverlappingRunsInsertNoDuplicate ==
    /\ \A v \in source : Cardinality(FactsOf(v)) <= 1
    /\ NoDuplicateKeys(dim_location)
    /\ NoDuplicateKeys(dim_time)
    /\ NoDuplicateKeys(dim_soil)
    /\ NoDuplicateKeys(dim_weather)

(***************************************************************************)
(* Claims about the consecutive counts and the purge (checked under        *)
(* ThresholdSpec and ThrottleSpec)                                         *)
(***************************************************************************)
\* the count a map holds for a key, 0 for a key without an entry
CountOr0(cc, key) == IF cc[key] = NoEntry THEN 0 ELSE cc[key]

\* the call was for a non-CRITICAL candidate outside the time window
OutsideWindow ==
    /\ IsCheck
    /\ call.priority # CRITICAL
    /\ \/ call.before.last_sent[call.key] = NoEntry
       \/ call.at - call.before.last_sent[call.key] >= ALERT_INTERVAL

\* C24: for every threshold T >= 1, the stored consecutive count of every
\* key is at least 0 and less than T after each call; a non-CRITICAL candidate
\* outside the time window increments the count by one, is emitted exactly
\* when the incremented count reaches T, and the count is 0 after an
\* emission; with T = 1 every stored count is 0.
C24_CountStaysBelowThreshold ==
    /\ \A k \in ThrottleKeys :
          consecutive_counts[k] # NoEntry =>
              /\ 0 <= consecutive_counts[k]
              /\ consecutive_counts[k] < threshold
              /\ threshold = 1 => consecutive_counts[k] = 0
    /\ OutsideWindow =>
          /\ call.ret <=>
                CountOr0(call.before.consecutive_counts, call.key) + 1 = threshold
          /\ call.ret => consecutive_counts[call.key] = 0
          /\ ~call.ret =>
                consecutive_counts[call.key]
                    = CountOr0(call.before.consecutive_counts, call.key) + 1

\* with T = 3, the third candidate of a key is emitted
C24_Witness ==
    /\ threshold = 3
    /\ OutsideWindow
    /\ call.ret
    /\ call.before.consecutive_counts[call.key] = 2
    /\ consecutive_counts[call.key] = 0

\* the last emission of key k, as last_sent holds it, is more than one hour
\* before now
IsOld(k) == last_sent[k] # NoEntry /\ now - last_sent[k] > PURGE_AGE

\* C25: when the purge runs, afterwards last_sent holds no key whose last
\* emission is more than 1 hour back, every purged key is gone from last_sent
\* and from consecutive_counts, and the entries of every other key are
\* unchanged in both maps.
C25_PurgeRemovesOldKeysOnly ==
    [][ call'.kind = "purge" =>
          \A k \in ThrottleKeys :
              /\ IsOld(k) =>
                    /\ last_sent'[k] = NoEntry
                    /\ consecutive_counts'[k] = NoEntry
              /\ ~IsOld(k) =>
                    /\ last_sent'[k] = last_sent[k]
                    /\ consecutive_counts'[k] = consecutive_counts[k]
              /\ last_sent'[k] # NoEntry => now' - last_sent'[k] <= PURGE_AGE ]_vars

\* a purge removed a key and kept a key emitted exactly one hour before
C25_Witness ==
    /\ call.kind = "purge"
    /\ call.old # {}
    /\ \E k \in ThrottleKeys :
          /\ last_sent[k] # NoEntry
          /\ now - last_sent[k] = PURGE_AGE
          /\ consecutive_counts[k] # NoEntry

(***************************************************************************)
(* Claims about the alerts of an INVALID reading (checked under            *)
(* ReadingSpec)                                                            *)
(***************************************************************************)
\* the classifications present among the sensor-level errors
Classifications ==
    { validation.errors[i][3] :
        i \in { j \in DOMAIN validation.errors :
                  validation.errors[j][1] = "sensor_data" } }
        \cap {"extreme_value", "missing", "out_of_range"}

\* what the description of the alert of a classification names
Named(c) ==
    CASE c = "extreme_value" -> "sensor_failure"
      [] c = "missing"       -> "sensor_disconnected"
      [] c = "out_of_range"  -> "sensor_malfunction"

\* C26: the alerts of an INVALID reading are CRITICAL Sensor Failure alerts
\* only (no operational alert), exactly one for each classification present
\* among its sensor-level errors however many quantities share it, and none
\* when no classification is present.
C26_OneCriticalAlertPerClassification ==
    (stage = "alerted" /\ validation.status = "INVALID") =>
        /\ Len(alerts) = Cardinality(Classifications)
        /\ \A i \in DOMAIN alerts :
              /\ alerts[i].type = "Sensor Failure"
              /\ alerts[i].priority = CRITICAL
              /\ \E c \in Classifications : alerts[i].description[1] = Named(c)
        /\ \A c \in Classifications :
              \E i \in DOMAIN alerts : alerts[i].description[1] = Named(c)

\* two quantities share a classification:
\* one alert
C26_Witness ==
    /\ stage = "alerted"
    /\ validation.status = "INVALID"
    /\ Len(validation.errors) = 2
    /\ validation.errors[1][1] = "sensor_data"
    /\ validation.errors[2][1] = "sensor_data"
    /\ validation.errors[1][3] = "extreme_value"
    /\ validation.errors[2][3] = "extreme_value"
    /\ validation.errors[1][2] # validation.errors[2][2]
    /\ Len(alerts) = 1

(***************************************************************************)
(* Claims about the stages of one record (checked under BatchSpec)         *)
(***************************************************************************)
\* the throttle decision for the alert a of a reading of loc_id, from
\* alert_state as the record found it (the non-CRITICAL alerts of one reading
\* have different keys)
Emits(a, loc_id) ==
    \/ a.priority = CRITICAL
    \/ last_sent[<<loc_id, a.type>>] = NoEntry
    \/ now - last_sent[<<loc_id, a.type>>] >= ALERT_INTERVAL

\* C27: the document persisted for a reading carries the status validation
\* gave, the alerts derived from that status, and as alerts_sent exactly the
\* alerts of that list for which the throttle decided to emit, in list order
\* (the key is absent when there is none); publish was called for these
\* alerts, in the same order, before the put.
C27_AlertsSentFollowDecisions ==
    [][ (pc = "running" /\ Len(puts') = Len(puts) + 1) =>
          LET put == puts'[Len(puts')]
              d == ReadingOf(records[idx])
              v == ValidateRecord(d)
              Decided(a) == Emits(a, put.loc_id)
          IN  put.error_type = "" =>
                /\ put.status = v.status
                /\ put.alerts \in HandleAlerts(LocIdOrUnknown(d), v.sensor_data,
                                                v.status, v.errors)
                /\ put.alerts_sent = SelectSeq(put.alerts, Decided)
                /\ Len(publishes') = Len(publishes) + Len(put.alerts_sent)
                /\ \A k \in DOMAIN put.alerts_sent :
                      publishes'[Len(publishes) + k].alert = put.alerts_sent[k]
      ]_vars

\* a hot reading, then a hot reading that is dry too: of the two alerts of
\* the second only Low Water Level is emitted
C27_Witness ==
    /\ Len(puts) = 2
    /\ records[1] = "hot" /\ records[2] = "hot_dry"
    /\ Len(puts[1].alerts_sent) = 1
    /\ Len(puts[2].alerts) = 2
    /\ Len(puts[2].alerts_sent) = 1
    /\ puts[2].alerts_sent[1].type = "Low Water Level"

(***************************************************************************)
(* Claims about the cross-validation against the weather (checked under    *)
(* ReadingSpec)                                                            *)
(***************************************************************************)
\* the reading reaches the cross-validation with both temperatures
HasBothTemperatures ==
    /\ reading.loc_id \in Locations
    /\ ~SensorDataEmpty(reading)
    /\ reading.sensor_data["temperature"].kind # "absent"
    /\ "weather_data" \in reading.keys
    /\ reading.weather_temp.kind = "num"

\* the two temperatures are numbers more than 15 degrees apart
MoreThan15Apart ==
    LET sensor_temp == validation.sensor_data["temperature"] IN
    /\ sensor_temp.kind = "num"
    /\ Magnitude(sensor_temp.n - reading.weather_temp.n) > 1500

\* C28: for a reading with a sensor temperature and a weather temperature,
\* sentinel and uncoercible sensor temperatures included, validation returns;
\* it has appended the temperature_mismatch warning exactly when the two
\* differ by more than 15; and a reading without errors is not INVALID.
C28_MismatchWarnsAndValidationCompletes ==
    (stage \in {"validated", "failed"} /\ HasBothTemperatures) =>
        /\ validation.outcome = "returned"
        /\ (\E i \in DOMAIN validation.warnings :
                validation.warnings[i][1] = "temperature_mismatch")
              <=> MoreThan15Apart
        /\ validation.errors = <<>> => validation.status # "INVALID"

(***************************************************************************)
(* Claims about the puts of a batch (checked under BatchSpec)              *)
(***************************************************************************)
\* C29: a record of a batch causes at most one put_object call, whichever
\* path it takes (processed, JSON decode error, processing error) and whether
\* or not the call fails, so no record is put under two prefixes; and the
\* puts made for earlier records are as they were after a later record,
\* failed or not, has been handled.
C29_AtMostOnePutPerRecord ==
    [][ pc = "running" =>
          /\ Len(puts') >= Len(puts)
          /\ SubSeq(puts', 1, Len(puts)) = puts
          /\ \A j, k \in DOMAIN puts' : puts'[j].index = puts'[k].index => j = k
      ]_vars

\* a reading put under valid/, then a record that fails to decode and a put
\* of its artifact that fails
C29_Witness ==
    /\ Len(records) = 2
    /\ Len(puts) = 2
    /\ puts[1].index = 1 /\ puts[1].prefix = "valid/" /\ puts[1].ok
    /\ puts[2].index = 2 /\ puts[2].prefix = "errors/json_decode/" /\ ~puts[2].ok

(***************************************************************************)
(* Claims about sentinel readings in a batch (checked under BatchSpec)     *)
(***************************************************************************)
\* the payload is a reading of a configured location with sensor values, one
\* of them a sentinel
SentinelPayload(p) ==
    /\ p \in ReadingPayloads
    /\ ReadingOf(p).loc_id \in Locations
    /\ ~SensorDataEmpty(ReadingOf(p))
    /\ \E name \in SensorSet : IsSentinel(ReadingOf(p).sensor_data[name])

\* C30: every reading of a configured location in which some quantity is a
\* sentinel value (a number, a text or None) is handed to the object store
\* under invalid/ as a processed reading, publish is called for a CRITICAL
\* Sensor Failure alert of that reading, and a batch of such readings returns
\* with no record counted as an error.
C30_SentinelReadingIsInvalidAndAlerts ==
    /\ \A k \in DOMAIN puts :
          SentinelPayload(records[puts[k].index]) =>
              /\ puts[k].error_type = ""
              /\ puts[k].prefix = "invalid/"
              /\ \E j \in DOMAIN publishes :
                    /\ publishes[j].index = puts[k].index
                    /\ publishes[j].alert.type = "Sensor Failure"
                    /\ publishes[j].alert.priority = CRITICAL
    /\ (pc = "returned" /\ \A i \in DOMAIN records : SentinelPayload(records[i])) =>
          /\ response.error_records = 0
          /\ response.processed_records = Len(records)

(***************************************************************************)
(* Claims about alert rules the validator shadows (checked under           *)
(* ReadingSpec)                                                            *)
(***************************************************************************)
\* the least value of a quantity the validator lets through, in hundredths
LeastAccepted(loc, name) == MinVal(loc, name) - Buffer(loc, name)

NeverPurgedEntry ==
    IF call.ret
    THEN (IF call.gap = NoEntry THEN NoEntry ELSE call.at - call.gap)
    ELSE emitted[call.key]

\* the decision of that process for the call (its count is 0 or absent, so
\* with threshold 1 it emits whenever it is outside the time window)
NeverPurgedDecision ==
    \/ call.priority = CRITICAL
    \/ NeverPurgedEntry = NoEntry
    \/ call.at - NeverPurgedEntry >= ALERT_INTERVAL

\* C32: with threshold 1, whichever of the batch starts so far purged, each
\* decision of check_and_send_alert is the decision of a process that was
\* given the same candidates at the same times and never purged.
C32_PurgeDoesNotChangeDecisions ==
    IsCheck => (call.ret <=> NeverPurgedDecision)

\* a non-CRITICAL candidate whose key was emitted for before and has been
\* purged since: emitted, as without the purge
C32_Witness ==
    /\ IsCheck
    /\ call.priority # CRITICAL
    /\ call.before.last_sent[call.key] = NoEntry
    /\ call.ret
    /\ call.gap # NoEntry
    /\ call.gap > PURGE_AGE

(***************************************************************************)
(* Claims about failed notifications (checked under BatchSpec)             *)
(***************************************************************************)
\* the alert a is among the alerts_sent of the put
AnnotatedWith(put, a) == \E m \in DOMAIN put.alerts_sent : put.alerts_sent[m] = a

PossibleRows ==
    { RowOf(kind, id, ts) : kind \in CompleteKinds, id \in 1..MaxReadings, ts \in 1..MaxStamp }

\* C34: when the job keeps being run, one run after the other and none
\* failing, every reading of the source whose natural-key columns are all set
\* eventually has a fact row, whatever its timestamp is against those already
\* loaded.
C34_EveryCompleteReadingIsLoaded ==
    \A v \in PossibleRows :
        (v \in source /\ AllKeysSet(v)) ~> (FactsOf(v) # {})

====
